---------------------------- MODULE Spec2Model ----------------------------
(***************************************************************************)
(* The snapshot-comparison engine of the SonarCloud quality downloader     *)
(* (commands/compare.js): compareQualityData and the four functions it     *)
(* calls, compareQualityGate, compareMeasures, compareIssues and           *)
(* generateSummary.                                                        *)
(*                                                                         *)
(* JavaScript values are modelled as follows.                              *)
(*   undefined, null   [type |-> "undefined"]                              *)
(*   a non-array {}    [type |-> "object"]                                 *)
(*   an array          [type |-> "array", items |-> <<...>>]               *)
(*   a string field    [type |-> "string", s |-> "..."] where the field    *)
(*                     may also be undefined (a name, a timestamp, a       *)
(*                     status), a plain string otherwise                   *)
(*   an object with dynamic keys ({} filled by obj[k] = v)                 *)
(*                     a sequence of [key, value] entries in key order     *)
(*                     (insertion order: no key of the model is an         *)
(*                     integer index)                                      *)
(*   a number          an integer; the value strings of the model hold     *)
(*                     no ".", exponent or "Infinity", so every parsed     *)
(*                     number is an integer and NaN is the only other      *)
(*                     outcome of parseFloat                               *)
(*   a template string the sequence of its pieces                          *)
(***************************************************************************)
EXTENDS Integers, Sequences, FiniteSets, TLC

VARIABLES
    fromData,    \* compareQualityData: the earlier snapshot
    toData,      \* compareQualityData: the later snapshot
    result,      \* compareQualityData: the Comparison being built
    pc,          \* where the run is
    options,     \* the options a command was called with
    disk,        \* the files of the output directory
    ret,         \* what the command, or loadData, returned
    error,       \* the error thrown and not yet caught
    trace,       \* the reads and writes of files so far, in order
    requests,    \* getFullQualityReport: the five requests
    promiseAll,  \* getFullQualityReport: the Promise.all over them
    fetched,     \* fetch, report: the data obtained (data)
    report       \* report: the report generated

commandVars == <<options, disk, ret, trace>>

apiVars == <<requests, promiseAll, fetched, report>>

vars == <<fromData, toData, result, pc, options, disk, ret, error, trace,
          requests, promiseAll, fetched, report>>

-----------------------------------------------------------------------------
(* Bounds of the inputs.                                                   *)

\* Measures of both snapshots together.
MaxMeasures == 2

\* Issues of both snapshots together.
MaxIssues == 3

-----------------------------------------------------------------------------
(* JavaScript values.                                                      *)

Undefined == [type |-> "undefined"]

NotArray == [type |-> "object"]

Arr(items) == [type |-> "array", items |-> items]

Str(s) == [type |-> "string", s |-> s]

\* Array.isArray(v)
IsArray(v) == v.type = "array"

\* !v for the values a snapshot field takes: undefined is the falsy one.
Falsy(v) == v.type = "undefined"

\* v || dflt for a string field that may be undefined or empty.
StrOr(v, dflt) == IF v.type = "string" /\ v.s # "" THEN v.s ELSE dflt

Abs(n) == IF n < 0 THEN -n ELSE n

\* The sequences over S of length n, and of length at most n.
SeqsOfLen(S, n) == [1..n -> S]

\* The pairs of sequences over S that hold at most n elements together.
SeqPairs(S, n) ==
    UNION {SeqsOfLen(S, a) \X SeqsOfLen(S, k - a) : <<a, k>> \in
             {<<a, k>> \in (0..n) \X (0..n) : a <= k}}

-----------------------------------------------------------------------------
(* Objects with dynamic keys: obj[k] = v, obj[k], Object.keys(obj).        *)

RECURSIVE HasKey(_, _)
HasKey(obj, k) ==
    IF obj = <<>> THEN FALSE
    ELSE IF Head(obj).key = k THEN TRUE ELSE HasKey(Tail(obj), k)

RECURSIVE ObjGet(_, _)
\* obj[k], for a key the object has.
ObjGet(obj, k) ==
    IF Head(obj).key = k THEN Head(obj).value ELSE ObjGet(Tail(obj), k)

\* obj[k] = v: a key the object has keeps its place, a new key goes last.
ObjSet(obj, k, v) ==
    IF HasKey(obj, k)
    THEN [i \in 1..Len(obj) |->
            IF obj[i].key = k THEN [key |-> k, value |-> v] ELSE obj[i]]
    ELSE Append(obj, [key |-> k, value |-> v])

\* Object.keys(obj)
ObjKeys(obj) == [i \in 1..Len(obj) |-> obj[i].key]

KeySet(obj) == {obj[i].key : i \in 1..Len(obj)}

-----------------------------------------------------------------------------
(* parseFloat, on the value strings of the model.                          *)

\* The characters of a value string (a TLA+ string cannot be taken apart).
Chars(s) ==
    CASE s = ""    -> <<>>
      [] s = "0"   -> <<"0">>
      [] s = "2"   -> <<"2">>
      [] s = "5"   -> <<"5">>
      [] s = "-3"  -> <<"-", "3">>
      [] s = "7x"  -> <<"7", "x">>
      [] s = "abc" -> <<"a", "b", "c">>
      [] s = "10"  -> <<"1", "0">>
      [] s = "undefined" -> <<"u", "n", "d", "e", "f", "i", "n", "e", "d">>

Digits == {"0", "1", "2", "3", "4", "5", "6", "7", "8", "9"}

DigitVal(c) ==
    CASE c = "0" -> 0 [] c = "1" -> 1 [] c = "2" -> 2 [] c = "3" -> 3
      [] c = "4" -> 4 [] c = "5" -> 5 [] c = "6" -> 6 [] c = "7" -> 7
      [] c = "8" -> 8 [] c = "9" -> 9

NaN == [nan |-> TRUE, n |-> 0]

Num(n) == [nan |-> FALSE, n |-> n]

RECURSIVE SkipWhiteSpace(_)
SkipWhiteSpace(cs) ==
    IF cs # <<>> /\ Head(cs) = " " THEN SkipWhiteSpace(Tail(cs)) ELSE cs

RECURSIVE DigitPrefix(_)
\* The longest prefix of cs made of decimal digits.
DigitPrefix(cs) ==
    IF cs # <<>> /\ Head(cs) \in Digits
    THEN <<Head(cs)>> \o DigitPrefix(Tail(cs))
    ELSE <<>>

RECURSIVE DecimalValue(_, _)
DecimalValue(ds, acc) ==
    IF ds = <<>> THEN acc
    ELSE DecimalValue(Tail(ds), 10 * acc + DigitVal(Head(ds)))

\* parseFloat that takes a number only from a string that is one to its end.
parseFloatWhole(v) ==
    LET cs     == SkipWhiteSpace(Chars(IF v.type = "string" THEN v.s
                                                            ELSE "undefined"))
        signed == cs # <<>> /\ Head(cs) \in {"+", "-"}
        rest   == IF signed THEN Tail(cs) ELSE cs
        ds     == DigitPrefix(rest)
        mag    == DecimalValue(ds, 0)
    IN  IF ds = <<>> \/ Len(ds) # Len(rest) THEN NaN
        ELSE Num(IF signed /\ Head(cs) = "-" THEN -mag ELSE mag)

\* parseFloat(v): v is converted to a string, leading white space is skipped,
\* and the longest prefix that is a decimal literal is the result; NaN when
\* there is none.
parseFloat(v) ==
    LET cs     == SkipWhiteSpace(Chars(IF v.type = "string" THEN v.s
                                                            ELSE "undefined"))
        signed == cs # <<>> /\ Head(cs) \in {"+", "-"}
        ds     == DigitPrefix(IF signed THEN Tail(cs) ELSE cs)
        mag    == DecimalValue(ds, 0)
    IN  IF ds = <<>> THEN NaN
        ELSE Num(IF signed /\ Head(cs) = "-" THEN -mag ELSE mag)

\* x || dflt for a number: NaN and 0 are the falsy ones.
NumOr(x, dflt) == IF x.nan \/ x.n = 0 THEN dflt ELSE x.n

-----------------------------------------------------------------------------
(* compareQualityGate                                                      *)

\* compareQualityGate with improved decided by the earlier status alone.
compareQualityGateFromOnly(from, to) ==
    IF Falsy(from) \/ Falsy(to)
    THEN [available |-> FALSE]
    ELSE [available  |-> TRUE,
          fromStatus |-> from.status,
          toStatus   |-> to.status,
          improved   |-> from.status # Str("OK"),
          degraded   |-> from.status = Str("OK") /\ to.status # Str("OK")]

\* compareQualityGate with every field in the block of a missing gate.
compareQualityGateComplete(from, to) ==
    IF Falsy(from) \/ Falsy(to)
    THEN [available  |-> FALSE,
          fromStatus |-> Undefined,
          toStatus   |-> Undefined,
          improved   |-> FALSE,
          degraded   |-> FALSE]
    ELSE [available  |-> TRUE,
          fromStatus |-> from.status,
          toStatus   |-> to.status,
          improved   |-> from.status # Str("OK") /\ to.status = Str("OK"),
          degraded   |-> from.status = Str("OK") /\ to.status # Str("OK")]

compareQualityGate(from, to) ==
    IF Falsy(from) \/ Falsy(to)
    THEN [available |-> FALSE]
    ELSE [available  |-> TRUE,
          fromStatus |-> from.status,
          toStatus   |-> to.status,
          improved   |-> from.status # Str("OK") /\ to.status = Str("OK"),
          degraded   |-> from.status = Str("OK") /\ to.status # Str("OK")]

-----------------------------------------------------------------------------
(* compareMeasures                                                         *)

RECURSIVE MeasuresToObjFirstWins(_, _)
\* MeasuresToObj that keeps the value a metric already has.
MeasuresToObjFirstWins(measures, obj) ==
    IF measures = <<>> THEN obj
    ELSE MeasuresToObjFirstWins(
           Tail(measures),
           IF HasKey(obj, Head(measures).metric) THEN obj
           ELSE ObjSet(obj, Head(measures).metric, Head(measures).value))

RECURSIVE MeasuresToObj(_, _)
\* measures.reduce((obj, measure) => { obj[measure.metric] = measure.value;
\* return obj; }, {})
MeasuresToObj(measures, obj) ==
    IF measures = <<>> THEN obj
    ELSE MeasuresToObj(Tail(measures),
                       ObjSet(obj, Head(measures).metric, Head(measures).value))

\* obj[metric] of such an object: the value string, or undefined.
MeasureOf(obj, metric) ==
    IF HasKey(obj, metric) THEN Str(ObjGet(obj, metric)) ELSE Undefined

RECURSIVE Distinct(_, _)
\* [...new Set(keys)]: the keys in the order of their first occurrence.
Distinct(keys, seen) ==
    IF keys = <<>> THEN <<>>
    ELSE IF Head(keys) \in seen THEN Distinct(Tail(keys), seen)
    ELSE <<Head(keys)>> \o Distinct(Tail(keys), seen \cup {Head(keys)})

LowerIsBetter ==
    {"bugs", "vulnerabilities", "code_smells", "duplicated_lines_density"}

\* MeasureImproved with every metric but coverage taken as lower-is-better.
MeasureImprovedAnyDecrease(metric, diff) ==
    IF metric = "coverage" THEN diff > 0 ELSE diff < 0

\* Whether a change of diff in metric is an improvement.
MeasureImproved(metric, diff) ==
    IF metric = "coverage" THEN diff > 0
    ELSE IF metric \in LowerIsBetter THEN diff < 0
    ELSE FALSE

\* The entry of changes for one metric.
MeasureChange(fromObj, toObj, metric) ==
    LET fromValue == NumOr(parseFloat(MeasureOf(fromObj, metric)), 0)
        toValue   == NumOr(parseFloat(MeasureOf(toObj, metric)), 0)
        diff      == toValue - fromValue
    IN  [from     |-> StrOr(MeasureOf(fromObj, metric), "0"),
         to       |-> StrOr(MeasureOf(toObj, metric), "0"),
         diff     |-> diff,
         improved |-> MeasureImproved(metric, diff)]

\* AllMetrics with the keys of the later snapshot only.
AllMetricsOfTo(fromObj, toObj) == Distinct(ObjKeys(toObj), {})

\* Object.keys(fromObj) followed by Object.keys(toObj), without repetition.
AllMetrics(fromObj, toObj) == Distinct(ObjKeys(fromObj) \o ObjKeys(toObj), {})

compareMeasures(from, to) ==
    IF ~IsArray(from) \/ ~IsArray(to)
    THEN [available |-> FALSE]
    ELSE LET fromObj    == MeasuresToObj(from.items, <<>>)
             toObj      == MeasuresToObj(to.items, <<>>)
             allMetrics == AllMetrics(fromObj, toObj)
         IN  [available |-> TRUE,
              changes   |-> [i \in 1..Len(allMetrics) |->
                               [key   |-> allMetrics[i],
                                value |-> MeasureChange(fromObj, toObj,
                                                        allMetrics[i])]]]

-----------------------------------------------------------------------------
(* compareIssues                                                           *)

severities == <<"BLOCKER", "CRITICAL", "MAJOR", "MINOR", "INFO">>

\* issues.filter(issue => issue.severity === severity).length
CountSeverity(issues, severity) ==
    Cardinality({i \in 1..Len(issues) :
                   "severity" \in DOMAIN issues[i]
                   /\ issues[i].severity = severity})

\* severities.reduce((counts, severity) => { counts[severity] = ...; return
\* counts; }, {})
SeverityCounts(issues) ==
    [i \in 1..Len(severities) |->
       [key |-> severities[i], value |-> CountSeverity(issues, severities[i])]]

\* IssueChange with an unchanged count taken as an improvement.
IssueChangeNotWorse(fromCount, toCount) ==
    LET diff == toCount - fromCount
    IN  [from |-> fromCount, to |-> toCount, diff |-> diff, improved |-> diff <= 0]

\* The entry of changes for one severity.
IssueChange(fromCount, toCount) ==
    LET diff == toCount - fromCount
    IN  [from |-> fromCount, to |-> toCount, diff |-> diff, improved |-> diff < 0]

RECURSIVE SumValues(_)
\* Object.values(counts).reduce((sum, count) => sum + count, 0)
SumValues(counts) ==
    IF counts = <<>> THEN 0 ELSE Head(counts).value + SumValues(Tail(counts))

\* IssueTotal with the difference taken the other way round.
IssueTotalReversed(fromCounts, toCounts) ==
    LET totalFrom == SumValues(fromCounts)
        totalTo   == SumValues(toCounts)
        totalDiff == totalFrom - totalTo
    IN  [from |-> totalFrom, to |-> totalTo, diff |-> totalDiff,
         improved |-> totalDiff < 0]

\* The total block.
IssueTotal(fromCounts, toCounts) ==
    LET totalFrom == SumValues(fromCounts)
        totalTo   == SumValues(toCounts)
        totalDiff == totalTo - totalFrom
    IN  [from |-> totalFrom, to |-> totalTo, diff |-> totalDiff,
         improved |-> totalDiff < 0]

\* compareIssues with the totals taken from the lengths of the arrays.
compareIssuesTotalOfLengths(from, to) ==
    IF ~IsArray(from) \/ ~IsArray(to)
    THEN [available |-> FALSE]
    ELSE LET fromCounts == SeverityCounts(from.items)
             toCounts   == SeverityCounts(to.items)
         IN  [available |-> TRUE,
              changes   |-> [i \in 1..Len(severities) |->
                               [key   |-> severities[i],
                                value |-> IssueChange(
                                            ObjGet(fromCounts, severities[i]),
                                            ObjGet(toCounts, severities[i]))]],
              total     |-> IssueChange(Len(from.items), Len(to.items))]

compareIssues(from, to) ==
    IF ~IsArray(from) \/ ~IsArray(to)
    THEN [available |-> FALSE]
    ELSE LET fromCounts == SeverityCounts(from.items)
             toCounts   == SeverityCounts(to.items)
         IN  [available |-> TRUE,
              changes   |-> [i \in 1..Len(severities) |->
                               [key   |-> severities[i],
                                value |-> IssueChange(
                                            ObjGet(fromCounts, severities[i]),
                                            ObjGet(toCounts, severities[i]))]],
              total     |-> IssueTotal(fromCounts, toCounts)]

-----------------------------------------------------------------------------
(* generateSummary                                                         *)

\* The outcome of reading a property of undefined.
TypeError == [error |-> "TypeError"]

EmptySummary == [qualityGate |-> "No change", improvements |-> <<>>,
                 degradations |-> <<>>]

\* QualityGateText with the degraded flag tested first.
QualityGateTextDegradedFirst(qualityGateChange) ==
    IF qualityGateChange.available
    THEN IF qualityGateChange.degraded THEN "Degraded (Passed -> Failed)"
         ELSE IF qualityGateChange.improved THEN "Improved (Failed -> Passed)"
         ELSE "No change"
    ELSE "No change"

\* summary.qualityGate
QualityGateText(qualityGateChange) ==
    IF qualityGateChange.available
    THEN IF qualityGateChange.improved THEN "Improved (Failed -> Passed)"
         ELSE IF qualityGateChange.degraded THEN "Degraded (Passed -> Failed)"
         ELSE "No change"
    ELSE "No change"

\* `${metric}: ${change.from} -> ${change.to}`
MeasureLine(metric, change) == <<metric, ": ", change.from, " -> ", change.to>>

\* SummarizeMeasure with a plain else: what did not improve is a degradation.
SummarizeMeasureElse(summary, metric, change) ==
    IF change.improved /\ Abs(change.diff) > 0
    THEN [summary EXCEPT !.improvements = Append(@, MeasureLine(metric, change))]
    ELSE [summary EXCEPT !.degradations = Append(@, MeasureLine(metric, change))]

\* One turn of the forEach over Object.entries(changes).
SummarizeMeasure(summary, metric, change) ==
    IF change.improved /\ Abs(change.diff) > 0
    THEN [summary EXCEPT !.improvements = Append(@, MeasureLine(metric, change))]
    ELSE IF ~change.improved /\ Abs(change.diff) > 0
    THEN [summary EXCEPT !.degradations = Append(@, MeasureLine(metric, change))]
    ELSE summary

RECURSIVE SummarizeMeasures(_, _)
SummarizeMeasures(summary, entries) ==
    IF entries = <<>> THEN summary
    ELSE SummarizeMeasures(
           SummarizeMeasure(summary, Head(entries).key, Head(entries).value),
           Tail(entries))

\* TotalLine without Math.abs.
TotalLineSigned(totalChange, word) ==
    <<"Total issues: ", ToString(totalChange.from), " -> ",
      ToString(totalChange.to), " (", ToString(totalChange.diff), word>>

\* `Total issues: ${from} -> ${to} (${Math.abs(diff)} fixed)`, resp. new.
TotalLine(totalChange, word) ==
    <<"Total issues: ", ToString(totalChange.from), " -> ",
      ToString(totalChange.to), " (", ToString(Abs(totalChange.diff)), word>>

\* SummarizeIssues without the test of available.
SummarizeIssuesUnguarded(summary, issuesChange) ==
    IF "total" \notin DOMAIN issuesChange THEN TypeError
    ELSE IF issuesChange.total.diff = 0 THEN summary
    ELSE IF issuesChange.total.improved
    THEN [summary EXCEPT
            !.improvements = Append(@, TotalLine(issuesChange.total, " fixed)"))]
    ELSE [summary EXCEPT
            !.degradations = Append(@, TotalLine(issuesChange.total, " new)"))]

\* The summary of the issues, added to summary; a TypeError when the total of
\* a block that has none is read.
SummarizeIssues(summary, issuesChange) ==
    IF ~issuesChange.available THEN summary
    ELSE IF "total" \notin DOMAIN issuesChange THEN TypeError
    ELSE IF issuesChange.total.diff = 0 THEN summary
    ELSE IF issuesChange.total.improved
    THEN [summary EXCEPT
            !.improvements = Append(@, TotalLine(issuesChange.total, " fixed)"))]
    ELSE [summary EXCEPT
            !.degradations = Append(@, TotalLine(issuesChange.total, " new)"))]

\* generateSummary filling the summary the comparison already has.
generateSummaryAccumulating(comparison) ==
    LET start    == IF "improvements" \in DOMAIN comparison.summary
                    THEN comparison.summary ELSE EmptySummary
        gate     == [start EXCEPT
                       !.qualityGate =
                          QualityGateText(comparison.qualityGateChange)]
        measures == IF comparison.measuresChange.available
                    THEN SummarizeMeasures(gate,
                                           comparison.measuresChange.changes)
                    ELSE gate
    IN  SummarizeIssues(measures, comparison.issuesChange)

generateSummary(comparison) ==
    LET gate     == [EmptySummary EXCEPT
                       !.qualityGate =
                          QualityGateText(comparison.qualityGateChange)]
        measures == IF comparison.measuresChange.available
                    THEN SummarizeMeasures(gate,
                                           comparison.measuresChange.changes)
                    ELSE gate
    IN  SummarizeIssues(measures, comparison.issuesChange)

-----------------------------------------------------------------------------
(* compareQualityData                                                      *)

\* toData.projectInfo?.name || 'Unknown'
ProjectName(data) ==
    IF data.projectInfo.type = "undefined" THEN "Unknown"
    ELSE StrOr(data.projectInfo.name, "Unknown")

\* The result before its summary is generated (summary: {}).
InitialResult(from, to) ==
    [project           |-> ProjectName(to),
     fromDate          |-> StrOr(from.timestamp, "Unknown"),
     toDate            |-> StrOr(to.timestamp, "Unknown"),
     qualityGateChange |-> compareQualityGate(from.qualityGate, to.qualityGate),
     measuresChange    |-> compareMeasures(from.measures, to.measures),
     issuesChange      |-> compareIssues(from.issues, to.issues),
     summary           |-> [type |-> "object"]]

NoResult == [type |-> "undefined"]

\* A snapshot whose measures were taken out of their array while compared.
AfterCompareDrained(data) ==
    [data EXCEPT !.measures = IF IsArray(@) THEN Arr(<<>>) ELSE @]

\* A snapshot after compareQualityData: its fields are read, reduce and
\* filter are the only methods called on its arrays and both leave the
\* array they are called on as it is, and no statement assigns to a
\* snapshot or to an element of its arrays.
AfterCompare(data) == data

-----------------------------------------------------------------------------
(* The snapshots compared.                                                 *)

Statuses == {"OK", "ERROR", "WARN", "NONE"}

Gate(status) == [type |-> "object", status |-> Str(status)]

\* A gate object that has no status.
GateWithoutStatus == [type |-> "object", status |-> Undefined]

Gates == {Undefined, GateWithoutStatus} \cup {Gate(s) : s \in Statuses}

Metrics == {"coverage", "bugs", "vulnerabilities", "code_smells",
            "duplicated_lines_density", "ncloc"}

Measure(metric, value) == [metric |-> metric, value |-> value]

MeasuresOver(metrics, values) ==
    {Measure(m, v) : <<m, v>> \in metrics \X values}

\* An issue of a severity, and the issues of the model: one of each of the
\* five severities, one of a severity outside them, one without severity.
Issue(severity) == [component |-> "src/app.js", severity |-> severity]

Issues == {Issue(severities[i]) : i \in 1..Len(severities)}
            \cup {Issue("HIGH"), [component |-> "src/app.js"]}

ProjectInfos == {Undefined, [type |-> "object", name |-> Str("pharmacy-pos")],
                 [type |-> "object", name |-> Undefined]}

Snapshot(projectInfo, qualityGate, measures, issues, timestamp) ==
    [projectInfo |-> projectInfo,
     qualityGate |-> qualityGate,
     measures    |-> measures,
     issues      |-> issues,
     timestamp   |-> timestamp]

\* A snapshot of a gate, measures and issues, with its project and time.
Plain(qualityGate, measures, issues, timestamp) ==
    Snapshot([type |-> "object", name |-> Str("pharmacy-pos")], qualityGate,
             measures, issues, Str(timestamp))

\* Pairs that differ in the gate, the project information and the time.
GatePairs ==
    {<<Snapshot(Undefined, g[1], Arr(<<>>), Arr(<<>>), t[1]),
       Snapshot(p, g[2], Arr(<<>>), Arr(<<>>), t[2])>> :
       <<g, p, t>> \in (Gates \X Gates) \X ProjectInfos
                       \X ({Undefined, Str("2025-05-01")}
                           \X {Undefined, Str("2025-05-25")})}

\* Pairs that differ in the measures: every metric with plain values, and
\* two metrics with values that are zero, empty, signed or no number.
MeasurePairs ==
    {<<Plain(Gate("OK"), Arr(m[1]), Arr(<<>>), "2025-05-01"),
       Plain(Gate("OK"), Arr(m[2]), Arr(<<>>), "2025-05-25")>> :
       m \in SeqPairs(MeasuresOver(Metrics, {"2", "5"}), MaxMeasures)
             \cup SeqPairs(MeasuresOver({"coverage", "ncloc"},
                                        {"0", "", "abc", "7x", "-3"}),
                           MaxMeasures)}

\* Pairs that differ in the issues.
IssuePairs ==
    {<<Plain(Gate("OK"), Arr(<<>>), Arr(i[1]), "2025-05-01"),
       Plain(Gate("OK"), Arr(<<>>), Arr(i[2]), "2025-05-25")>> :
       i \in SeqPairs(Issues, MaxIssues)}

\* Pairs in which each of the three components is missing, no array, or
\* present, on either side.
PartialSides(value, timestamp) ==
    {Plain(g, m, i, timestamp) :
       <<g, m, i>> \in {Undefined, Gate("OK"), Gate("ERROR")}
                       \X {Undefined, NotArray,
                           Arr(<<Measure("coverage", value)>>)}
                       \X {Undefined, NotArray, Arr(<<>>),
                           Arr(<<Issue("MAJOR")>>)}}

PartialPairs ==
    PartialSides("2", "2025-05-01") \X PartialSides("5", "2025-05-25")

SnapshotPairs == GatePairs \cup MeasurePairs \cup IssuePairs \cup PartialPairs

-----------------------------------------------------------------------------
(* The run of compareQualityData on two loaded snapshots.                  *)

\* No command runs and no request is under way.
NoCommand ==
    /\ options = Undefined
    /\ disk = {}
    /\ ret = Undefined
    /\ trace = <<>>

NoRequests ==
    /\ requests = Undefined
    /\ promiseAll = Undefined
    /\ fetched = Undefined
    /\ report = Undefined

Init ==
    /\ \E pair \in SnapshotPairs :
         /\ fromData = pair[1]
         /\ toData = pair[2]
    /\ result = NoResult
    /\ pc = "loaded"
    /\ error = Undefined
    /\ NoCommand
    /\ NoRequests

\* const result = { project: ..., qualityGateChange: ..., ..., summary: {} };
\* reading a field of a snapshot that is null throws.
BuildResult ==
    /\ pc = "loaded"
    /\ IF toData = Undefined \/ fromData = Undefined
       THEN /\ pc' = "threw"
            /\ error' = TypeError
            /\ UNCHANGED <<fromData, toData, result>>
       ELSE /\ pc' = "compared"
            /\ result' = InitialResult(fromData, toData)
            /\ fromData' = AfterCompare(fromData)
            /\ toData' = AfterCompare(toData)
            /\ UNCHANGED error
    /\ UNCHANGED <<commandVars, apiVars>>

\* result.summary = generateSummary(result); return result
Summarize ==
    /\ pc = "compared"
    /\ LET summary == generateSummary(result)
       IN  IF summary = TypeError
           THEN /\ pc' = "threw"
                /\ error' = TypeError
                /\ UNCHANGED result
           ELSE /\ pc' = "done"
                /\ result' = [result EXCEPT !.summary = summary]
                /\ UNCHANGED error
    /\ UNCHANGED <<fromData, toData, commandVars, apiVars>>

Next == BuildResult \/ Summarize

Spec == Init /\ [][Next]_vars

-----------------------------------------------------------------------------
(* What the claims are stated with.                                        *)

\* The sub-comparisons are in result.
Compared == pc \in {"compared", "done"}

GatesPresent == ~Falsy(fromData.qualityGate) /\ ~Falsy(toData.qualityGate)

MeasuresPresent == IsArray(fromData.measures) /\ IsArray(toData.measures)

IssuesPresent == IsArray(fromData.issues) /\ IsArray(toData.issues)

\* The metric keys of a sequence of measures.
MetricKeys(measures) == {measures[i].metric : i \in 1..Len(measures)}

\* The value of the last measure of a metric in a sequence that has one.
LastValue(measures, metric) ==
    LET last == CHOOSE i \in 1..Len(measures) :
                  /\ measures[i].metric = metric
                  /\ \A j \in (i + 1)..Len(measures) : measures[j].metric # metric
    IN  measures[last].value

\* The number each value string of the model stands for, 0 when it stands
\* for none.
NumberOf(value) ==
    CASE value = "2" -> 2
      [] value = "5" -> 5
      [] value = "-3" -> -3
      [] value = "7x" -> 7
      [] value = "10" -> 10
      [] OTHER -> 0

\* The number a side contributes to diff for a metric.
SideNumber(measures, metric) ==
    IF metric \in MetricKeys(measures)
    THEN NumberOf(LastValue(measures, metric))
    ELSE 0

\* The issues of a sequence that have the severity.
WithSeverity(issues, severity) ==
    {i \in 1..Len(issues) :
       "severity" \in DOMAIN issues[i] /\ issues[i].severity = severity}

SeveritySet == {severities[i] : i \in 1..Len(severities)}

\* The issues of a sequence whose severity is one of the five.
Recognized(issues) ==
    {i \in 1..Len(issues) :
       "severity" \in DOMAIN issues[i] /\ issues[i].severity \in SeveritySet}

\* How often a line occurs in a list of lines.
Occurrences(lines, line) == Cardinality({i \in 1..Len(lines) : lines[i] = line})

-----------------------------------------------------------------------------
(* C1: with both gates present, improved is true exactly when from.status  *)
(* is not "OK" and to.status is "OK", degraded exactly when from.status is *)
(* "OK" and to.status is not; both are false when the statuses are equal   *)
(* or both not "OK"; they are never both true.                             *)
C1_QualityGateFlags ==
    (Compared /\ GatesPresent) =>
        LET change == result.qualityGateChange
            from   == fromData.qualityGate.status
            to     == toData.qualityGate.status
        IN  /\ change.available
            /\ change.fromStatus = from /\ change.toStatus = to
            /\ change.improved <=> (from # Str("OK") /\ to = Str("OK"))
            /\ change.degraded <=> (from = Str("OK") /\ to # Str("OK"))
            /\ (from = to \/ (from # Str("OK") /\ to # Str("OK"))) =>
                 (~change.improved /\ ~change.degraded)
            /\ ~(change.improved /\ change.degraded)

\* A failed gate that passes, compared.
C1_Witness ==
    /\ pc = "done"
    /\ GatesPresent
    /\ fromData.qualityGate.status = Str("ERROR")
    /\ toData.qualityGate.status = Str("OK")
    /\ result.qualityGateChange.improved

-----------------------------------------------------------------------------
(* C2: for every metric of changes, improved is diff > 0 for coverage,     *)
(* diff < 0 for bugs, vulnerabilities, code_smells and                     *)
(* duplicated_lines_density, and false for every other metric.             *)
C2_MeasurePolarity ==
    (Compared /\ MeasuresPresent) =>
        \A i \in 1..Len(result.measuresChange.changes) :
            LET metric == result.measuresChange.changes[i].key
                change == result.measuresChange.changes[i].value
            IN  /\ metric = "coverage" => (change.improved <=> change.diff > 0)
                /\ metric \in {"bugs", "vulnerabilities", "code_smells",
                               "duplicated_lines_density"} =>
                     (change.improved <=> change.diff < 0)
                /\ metric \notin {"coverage", "bugs", "vulnerabilities",
                                  "code_smells", "duplicated_lines_density"} =>
                     ~change.improved

\* A metric without polarity went down and one that counts defects went down.
C2_Witness ==
    /\ pc = "done"
    /\ MeasuresPresent
    /\ \E i, j \in 1..Len(result.measuresChange.changes) :
         /\ result.measuresChange.changes[i].key = "ncloc"
         /\ result.measuresChange.changes[i].value.diff < 0
         /\ ~result.measuresChange.changes[i].value.improved
         /\ result.measuresChange.changes[j].key = "code_smells"
         /\ result.measuresChange.changes[j].value.diff < 0
         /\ result.measuresChange.changes[j].value.improved

-----------------------------------------------------------------------------
(* C3: the keys of changes are exactly the union of the metric keys of the *)
(* two sequences, each once; a metric of one side only shows "0" for the   *)
(* missing side and counts 0 for it in diff = to - from.                   *)
C3_MeasureUnion ==
    (Compared /\ MeasuresPresent) =>
        LET changes == result.measuresChange.changes
            from    == fromData.measures.items
            to      == toData.measures.items
        IN  /\ KeySet(changes) = MetricKeys(from) \cup MetricKeys(to)
            /\ Len(changes) = Cardinality(KeySet(changes))
            /\ \A i \in 1..Len(changes) :
                 LET metric == changes[i].key
                     change == changes[i].value
                 IN  /\ change.diff = SideNumber(to, metric)
                                        - SideNumber(from, metric)
                     /\ metric \notin MetricKeys(from) => change.from = "0"
                     /\ metric \notin MetricKeys(to) => change.to = "0"

\* A metric that only the later snapshot has.
C3_Witness ==
    /\ pc = "done"
    /\ MeasuresPresent
    /\ MetricKeys(fromData.measures.items) = {"bugs"}
    /\ MetricKeys(toData.measures.items) = {"coverage"}
    /\ \E i \in 1..Len(result.measuresChange.changes) :
         /\ result.measuresChange.changes[i].key = "coverage"
         /\ result.measuresChange.changes[i].value.from = "0"
         /\ result.measuresChange.changes[i].value.to = "5"
         /\ result.measuresChange.changes[i].value.diff = 5

-----------------------------------------------------------------------------
(* C4: changes of the issues has exactly the five severities as keys; for  *)
(* each, from and to are the numbers of issues of exactly that severity in *)
(* the two sequences, diff = to - from and improved is diff < 0.           *)
C4_SeverityCounts ==
    (Compared /\ IssuesPresent) =>
        LET changes == result.issuesChange.changes
        IN  /\ ObjKeys(changes) = severities
            /\ \A i \in 1..Len(changes) :
                 LET change == changes[i].value
                 IN  /\ change.from =
                          Cardinality(WithSeverity(fromData.issues.items,
                                                   changes[i].key))
                     /\ change.to =
                          Cardinality(WithSeverity(toData.issues.items,
                                                   changes[i].key))
                     /\ change.diff = change.to - change.from
                     /\ change.improved <=> change.diff < 0

\* Two MAJOR issues are gone and an INFO issue is new.
C4_Witness ==
    /\ pc = "done"
    /\ IssuesPresent
    /\ \E i, j \in 1..Len(result.issuesChange.changes) :
         /\ result.issuesChange.changes[i].key = "MAJOR"
         /\ result.issuesChange.changes[i].value.from = 2
         /\ result.issuesChange.changes[i].value.diff = -2
         /\ result.issuesChange.changes[i].value.improved
         /\ result.issuesChange.changes[j].key = "INFO"
         /\ result.issuesChange.changes[j].value.diff = 1
         /\ ~result.issuesChange.changes[j].value.improved

-----------------------------------------------------------------------------
(* C5: total.from and total.to are the sums of the five per-severity       *)
(* counts of their side, so an issue without one of the five severities is *)
(* not in the total; total.diff = total.to - total.from is the sum of the  *)
(* five diffs; total.improved is total.diff < 0.                           *)
C5_TotalsSumSeverities ==
    (Compared /\ IssuesPresent) =>
        LET changes == result.issuesChange.changes
            total   == result.issuesChange.total
            Sum(f(_)) == f(changes[1].value) + f(changes[2].value)
                           + f(changes[3].value) + f(changes[4].value)
                           + f(changes[5].value)
            From(change) == change.from
            To(change)   == change.to
            Diff(change) == change.diff
        IN  /\ Len(changes) = 5
            /\ total.from = Sum(From)
            /\ total.to = Sum(To)
            /\ total.diff = total.to - total.from
            /\ total.diff = Sum(Diff)
            /\ total.improved <=> total.diff < 0

\* An issue outside the five severities, left out of a total that went up.
C5_Witness ==
    /\ pc = "done"
    /\ IssuesPresent
    /\ Len(fromData.issues.items) = 2
    /\ result.issuesChange.total.from = 1
    /\ result.issuesChange.total.to = 0
    /\ result.issuesChange.total.improved

-----------------------------------------------------------------------------
(* C6, as claimed: an issue outside the five severities is still counted   *)
(* in the totals, so total.from and total.to are the numbers of issues of  *)
(* the two sequences.                                                      *)
C6_TotalsCountEveryIssue ==
    (Compared /\ IssuesPresent) =>
        /\ result.issuesChange.total.from = Len(fromData.issues.items)
        /\ result.issuesChange.total.to = Len(toData.issues.items)

(* C6, amended: an issue outside the five severities is in no entry of the *)
(* per-severity breakdown and is not counted in the totals either:         *)
(* total.from and total.to are the numbers of issues of the two sequences  *)
(* whose severity is one of the five.                                      *)
C6_TotalsCountRecognized ==
    (Compared /\ IssuesPresent) =>
        /\ result.issuesChange.total.from =
             Cardinality(Recognized(fromData.issues.items))
        /\ result.issuesChange.total.to =
             Cardinality(Recognized(toData.issues.items))
        /\ \A i \in 1..Len(result.issuesChange.changes) :
             result.issuesChange.changes[i].key \in SeveritySet

\* Issues of a severity outside the five and without severity on both sides.
C6_Witness ==
    /\ pc = "done"
    /\ IssuesPresent
    /\ \E i \in 1..Len(fromData.issues.items) :
         "severity" \notin DOMAIN fromData.issues.items[i]
    /\ \E i \in 1..Len(toData.issues.items) :
         /\ "severity" \in DOMAIN toData.issues.items[i]
         /\ toData.issues.items[i].severity = "HIGH"
    /\ result.issuesChange.total.from < Len(fromData.issues.items)
    /\ result.issuesChange.total.to < Len(toData.issues.items)

-----------------------------------------------------------------------------
(* C7: every metric of changes whose diff is not 0 puts the line           *)
(* "<metric>: <from> -> <to>" once in improvements when its improved flag  *)
(* is true and once in degradations otherwise, and in no other list; a     *)
(* metric whose diff is 0 puts it in neither.                              *)
C7_MeasureLines ==
    (pc = "done" /\ MeasuresPresent) =>
        \A i \in 1..Len(result.measuresChange.changes) :
            LET metric == result.measuresChange.changes[i].key
                change == result.measuresChange.changes[i].value
                line   == <<metric, ": ", change.from, " -> ", change.to>>
                better == Occurrences(result.summary.improvements, line)
                worse  == Occurrences(result.summary.degradations, line)
            IN  /\ (change.diff # 0 /\ change.improved) =>
                     (better = 1 /\ worse = 0)
                /\ (change.diff # 0 /\ ~change.improved) =>
                     (better = 0 /\ worse = 1)
                /\ change.diff = 0 => (better = 0 /\ worse = 0)

\* A changed metric without polarity is listed as a degradation, an
\* unchanged one is not listed.
C7_Witness ==
    /\ pc = "done"
    /\ MeasuresPresent
    /\ \E i, j \in 1..Len(result.measuresChange.changes) :
         /\ result.measuresChange.changes[i].key = "ncloc"
         /\ result.measuresChange.changes[i].value.diff > 0
         /\ result.measuresChange.changes[j].key = "coverage"
         /\ result.measuresChange.changes[j].value.diff = 0
    /\ result.summary.degradations = <<<<"ncloc", ": ", "0", " -> ", "7x">>>>
    /\ result.summary.improvements = <<>>

\* The places of the lines about the total of the issues in a list of lines.
IssueLines(lines) == {i \in 1..Len(lines) : lines[i][1] = "Total issues: "}

-----------------------------------------------------------------------------
(* C8: of the issues only the total is summarized.  With total.diff = 0 no *)
(* issue line is in either list, also when severities changed and cancel   *)
(* out; with total.diff < 0 one line ending in "(<|diff|> fixed)" is in    *)
(* improvements and none in degradations; with total.diff > 0 one line     *)
(* ending in "(<|diff|> new)" is in degradations and none in improvements; *)
(* no line is about one severity.                                          *)
C8_IssueTotalLine ==
    (pc = "done" /\ IssuesPresent) =>
        LET total  == result.issuesChange.total
            better == result.summary.improvements
            worse  == result.summary.degradations
            Line(word) == <<"Total issues: ", ToString(total.from), " -> ",
                            ToString(total.to), " (",
                            ToString(IF total.diff < 0 THEN -total.diff
                                                       ELSE total.diff),
                            word>>
        IN  /\ total.diff = 0 =>
                 (IssueLines(better) = {} /\ IssueLines(worse) = {})
            /\ total.diff < 0 =>
                 /\ Cardinality(IssueLines(better)) = 1
                 /\ \A i \in IssueLines(better) : better[i] = Line(" fixed)")
                 /\ IssueLines(worse) = {}
            /\ total.diff > 0 =>
                 /\ Cardinality(IssueLines(worse)) = 1
                 /\ \A i \in IssueLines(worse) : worse[i] = Line(" new)")
                 /\ IssueLines(better) = {}
            /\ \A i \in 1..Len(better) :
                 i \in IssueLines(better) \/ better[i][1] \notin SeveritySet
            /\ \A i \in 1..Len(worse) :
                 i \in IssueLines(worse) \/ worse[i][1] \notin SeveritySet
            /\ Len(better) + Len(worse) =
                 Cardinality(IssueLines(better)) + Cardinality(IssueLines(worse))
                 + (IF MeasuresPresent
                    THEN Len(result.measuresChange.changes) ELSE 0)
                 - (IF MeasuresPresent
                    THEN Cardinality({j \in 1..Len(result.measuresChange.changes) :
                           result.measuresChange.changes[j].value.diff = 0})
                    ELSE 0)

\* A MAJOR issue is gone and a MINOR one is new: the total did not change.
C8_Witness ==
    /\ pc = "done"
    /\ IssuesPresent
    /\ result.issuesChange.total.diff = 0
    /\ \E i, j \in 1..Len(result.issuesChange.changes) :
         /\ result.issuesChange.changes[i].value.diff < 0
         /\ result.issuesChange.changes[j].value.diff > 0
    /\ result.summary.improvements = <<>>
    /\ result.summary.degradations = <<>>

-----------------------------------------------------------------------------
(* generateSummary on comparisons given directly: among them gate blocks   *)
(* with both flags set, which compareQualityGate does not produce.         *)

GateChanges ==
    {[available |-> FALSE]}
      \cup {[available |-> TRUE, fromStatus |-> Str(s[1]),
             toStatus |-> Str(s[2]), improved |-> f[1], degraded |-> f[2]] :
              <<s, f>> \in (Statuses \X Statuses) \X (BOOLEAN \X BOOLEAN)}

MeasureChanges ==
    {[available |-> FALSE],
     [available |-> TRUE, changes |-> <<>>],
     [available |-> TRUE,
      changes |-> <<[key |-> "coverage",
                     value |-> [from |-> "2", to |-> "5", diff |-> 3,
                                improved |-> TRUE]]>>]}

IssueChanges ==
    {[available |-> FALSE]}
      \cup {[available |-> TRUE,
             changes |-> [i \in 1..Len(severities) |->
                            [key |-> severities[i],
                             value |-> IssueChange(0, IF i = 1 THEN n ELSE 0)]],
             total |-> IssueChange(0, n)] : n \in 0..1}

Comparisons ==
    {[project           |-> "pharmacy-pos",
      fromDate          |-> "2025-05-01",
      toDate            |-> "2025-05-25",
      qualityGateChange |-> c[1],
      measuresChange    |-> c[2],
      issuesChange      |-> c[3],
      summary           |-> [type |-> "object"]] :
       c \in GateChanges \X MeasureChanges \X IssueChanges}

InitComparison ==
    /\ fromData = Undefined
    /\ toData = Undefined
    /\ result \in Comparisons
    /\ pc = "compared"
    /\ error = Undefined
    /\ NoCommand
    /\ NoRequests

SpecSummary == (Init \/ InitComparison) /\ [][Next]_vars

-----------------------------------------------------------------------------
(* C9: summary.qualityGate is one of three strings: "Improved (Failed ->   *)
(* Passed)" when the gate block's improved flag is true, also when         *)
(* degraded is true as well; "Degraded (Passed -> Failed)" when improved   *)
(* is false and degraded is true; "No change" otherwise, and when the gate *)
(* block is not available.                                                 *)
C9_QualityGateText ==
    pc = "done" =>
        LET change == result.qualityGateChange
            text   == result.summary.qualityGate
        IN  /\ text \in {"Improved (Failed -> Passed)",
                         "Degraded (Passed -> Failed)", "No change"}
            /\ (change.available /\ change.improved) =>
                 text = "Improved (Failed -> Passed)"
            /\ (change.available /\ ~change.improved /\ change.degraded) =>
                 text = "Degraded (Passed -> Failed)"
            /\ (~change.available
                  \/ (~change.improved /\ ~change.degraded)) =>
                 text = "No change"

\* A gate block with both flags set is summarized as improved.
C9_Witness ==
    /\ pc = "done"
    /\ result.qualityGateChange.available
    /\ result.qualityGateChange.improved
    /\ result.qualityGateChange.degraded
    /\ result.summary.qualityGate = "Improved (Failed -> Passed)"

-----------------------------------------------------------------------------
(* C10: compareQualityData does not throw when the gate, the measures or   *)
(* the issues are missing, or the measures or issues are no array, on      *)
(* either side: each sub-comparison is {available: false} exactly when its *)
(* own component is missing on a side, the others are what they are        *)
(* without anything missing, and the summary is produced.                  *)
C10_PartialSnapshots ==
    /\ pc # "threw"
    /\ pc = "compared" => ENABLED Summarize
    /\ Compared =>
         /\ result.qualityGateChange.available <=> GatesPresent
         /\ result.measuresChange.available <=> MeasuresPresent
         /\ result.issuesChange.available <=> IssuesPresent
         /\ ~GatesPresent => result.qualityGateChange = [available |-> FALSE]
         /\ ~MeasuresPresent => result.measuresChange = [available |-> FALSE]
         /\ ~IssuesPresent => result.issuesChange = [available |-> FALSE]
         /\ GatesPresent =>
              /\ result.qualityGateChange.fromStatus
                   = fromData.qualityGate.status
              /\ result.qualityGateChange.toStatus = toData.qualityGate.status
         /\ MeasuresPresent =>
              KeySet(result.measuresChange.changes)
                = MetricKeys(fromData.measures.items)
                    \cup MetricKeys(toData.measures.items)
         /\ IssuesPresent =>
              /\ ObjKeys(result.issuesChange.changes) = severities
              /\ result.issuesChange.total.from
                   = Cardinality(Recognized(fromData.issues.items))
              /\ result.issuesChange.total.to
                   = Cardinality(Recognized(toData.issues.items))
    /\ pc = "done" =>
         /\ DOMAIN result.summary =
              {"qualityGate", "improvements", "degradations"}
         /\ (MeasuresPresent /\ ~IssuesPresent) =>
              Len(result.summary.improvements)
                + Len(result.summary.degradations)
                = Cardinality({i \in 1..Len(result.measuresChange.changes) :
                     result.measuresChange.changes[i].value.diff # 0})
         /\ (IssuesPresent /\ ~MeasuresPresent) =>
              Len(result.summary.improvements)
                + Len(result.summary.degradations)
                = (IF result.issuesChange.total.diff # 0 THEN 1 ELSE 0)
         /\ (~IssuesPresent /\ ~MeasuresPresent) =>
              (result.summary.improvements = <<>>
                 /\ result.summary.degradations = <<>>)

\* Without gate and issues on one side, the measures are compared and
\* summarized.
C10_Witness ==
    /\ pc = "done"
    /\ Falsy(fromData.qualityGate)
    /\ ~IsArray(toData.issues)
    /\ MeasuresPresent
    /\ result.issuesChange = [available |-> FALSE]
    /\ result.summary.qualityGate = "No change"
    /\ result.summary.improvements = <<<<"coverage", ": ", "2", " -> ", "5">>>>

-----------------------------------------------------------------------------
(* C11, as claimed: every Comparison is structurally complete: the gate    *)
(* block has available, fromStatus, toStatus, improved and degraded, the   *)
(* measures block available and changes, the issues block available,       *)
(* changes and total, the summary qualityGate, improvements and            *)
(* degradations, also when the gate, the measures or the issues are        *)
(* missing.                                                                *)
C11_EveryFieldPresent ==
    pc = "done" =>
        /\ DOMAIN result.qualityGateChange =
             {"available", "fromStatus", "toStatus", "improved", "degraded"}
        /\ DOMAIN result.measuresChange = {"available", "changes"}
        /\ DOMAIN result.issuesChange = {"available", "changes", "total"}
        /\ DOMAIN result.summary =
             {"qualityGate", "improvements", "degradations"}

(* C11, amended: every Comparison has project, fromDate, toDate, the three *)
(* blocks and the summary with its three fields, and every block has       *)
(* available; a block whose data is there has all its fields, and a block  *)
(* whose data is missing is {available: false} and nothing else: its other *)
(* fields are omitted.                                                     *)
C11_FieldsByAvailability ==
    pc = "done" =>
        /\ DOMAIN result =
             {"project", "fromDate", "toDate", "qualityGateChange",
              "measuresChange", "issuesChange", "summary"}
        /\ DOMAIN result.summary =
             {"qualityGate", "improvements", "degradations"}
        /\ DOMAIN result.qualityGateChange =
             (IF GatesPresent
              THEN {"available", "fromStatus", "toStatus", "improved",
                    "degraded"}
              ELSE {"available"})
        /\ DOMAIN result.measuresChange =
             (IF MeasuresPresent THEN {"available", "changes"}
                                 ELSE {"available"})
        /\ DOMAIN result.issuesChange =
             (IF IssuesPresent THEN {"available", "changes", "total"}
                               ELSE {"available"})
        /\ \A i \in 1..(IF MeasuresPresent
                        THEN Len(result.measuresChange.changes) ELSE 0) :
             DOMAIN result.measuresChange.changes[i].value =
               {"from", "to", "diff", "improved"}
        /\ IssuesPresent =>
             DOMAIN result.issuesChange.total =
               {"from", "to", "diff", "improved"}

\* A comparison of a snapshot without gate with one without issues.
C11_Witness ==
    /\ pc = "done"
    /\ Falsy(fromData.qualityGate)
    /\ toData.issues = Undefined
    /\ MeasuresPresent
    /\ DOMAIN result.qualityGateChange = {"available"}
    /\ DOMAIN result.issuesChange = {"available"}
    /\ DOMAIN result.measuresChange = {"available", "changes"}

-----------------------------------------------------------------------------
-----------------------------------------------------------------------------
(* generateSummary called once more on the Comparison that                 *)
(* compareQualityData returned, the summary it returns kept in the place   *)
(* of the first.                                                           *)
SummarizeAgain ==
    /\ pc = "done"
    /\ LET summary == generateSummary(result)
       IN  IF summary = TypeError
           THEN /\ pc' = "threw"
                /\ error' = TypeError
                /\ UNCHANGED result
           ELSE /\ pc' = "again"
                /\ result' = [result EXCEPT !.summary = summary]
                /\ UNCHANGED error
    /\ UNCHANGED <<fromData, toData, commandVars, apiVars>>

NextTwice == Next \/ SummarizeAgain

SpecTwice == Init /\ [][NextTwice]_vars

(* C13: generateSummary is idempotent: the second call on a Comparison     *)
(* returns the gate text and the improvement and degradation lines of the  *)
(* first, none of them twice, and leaves the change blocks as they were.   *)
C13_SummaryIdempotent ==
    [][pc' = "again" =>
         /\ pc = "done"
         /\ result'.summary = result.summary
         /\ result' = result]_vars

\* A second summary with a line of each kind.
C13_Witness ==
    /\ pc = "again"
    /\ Len(result.summary.improvements) > 0
    /\ Len(result.summary.degradations) > 0
    /\ result.summary.qualityGate # "No change"

-----------------------------------------------------------------------------
(* C15, as claimed: the displayed from and to values of a metric are the   *)
(* value the side has for it whenever the side has the metric, the empty   *)
(* string included, and "0" only when the side does not have the metric.   *)
C15_PresentValueDisplayed ==
    (Compared /\ MeasuresPresent) =>
        LET changes == result.measuresChange.changes
            from    == fromData.measures.items
            to      == toData.measures.items
        IN  \A i \in 1..Len(changes) :
              LET metric == changes[i].key
              IN  /\ changes[i].value.from =
                       (IF metric \in MetricKeys(from)
                        THEN LastValue(from, metric) ELSE "0")
                  /\ changes[i].value.to =
                       (IF metric \in MetricKeys(to)
                        THEN LastValue(to, metric) ELSE "0")

\* The later snapshot has a metric with the empty string as its value.
C15_Witness ==
    /\ pc = "done"
    /\ MeasuresPresent
    /\ \E i \in 1..Len(result.measuresChange.changes) :
         LET metric == result.measuresChange.changes[i].key
         IN  /\ metric \in MetricKeys(toData.measures.items)
             /\ LastValue(toData.measures.items, metric) = ""
             /\ result.measuresChange.changes[i].value.to = "0"

-----------------------------------------------------------------------------
\* The value strings of the model that parseFloat finds no number in.
Unparsable == {"", "abc"}

\* The side has the metric with a value that does not parse.
NoNumber(measures, metric) ==
    metric \in MetricKeys(measures) /\ LastValue(measures, metric) \in Unparsable

(* C16: diff is n(to) - n(from), where n of a side is the number its value *)
(* parses to and 0 when the value does not parse: a value that does not    *)
(* parse raises no error and leaves diff a number, the number of the       *)
(* other side, or its negative.                                            *)
C16_UnparsableCountsZero ==
    /\ pc # "threw"
    /\ (Compared /\ MeasuresPresent) =>
        LET changes == result.measuresChange.changes
            from    == fromData.measures.items
            to      == toData.measures.items
        IN  \A i \in 1..Len(changes) :
              LET metric == changes[i].key
                  diff   == changes[i].value.diff
              IN  /\ diff \in Int
                  /\ diff = SideNumber(to, metric) - SideNumber(from, metric)
                  /\ NoNumber(from, metric) => diff = SideNumber(to, metric)
                  /\ NoNumber(to, metric) => diff = -SideNumber(from, metric)

\* "abc" became "7x": diff is 7 - 0.
C16_Witness ==
    /\ pc = "done"
    /\ MeasuresPresent
    /\ fromData.measures.items = <<Measure("coverage", "abc")>>
    /\ toData.measures.items = <<Measure("coverage", "7x")>>
    /\ ObjGet(result.measuresChange.changes, "coverage").diff = 7

-----------------------------------------------------------------------------
\* The metric occurs more than once in the sequence.
Repeated(measures, metric) ==
    Cardinality({i \in 1..Len(measures) : measures[i].metric = metric}) > 1

\* The measures of a sequence that no later measure of the same metric
\* follows.
RECURSIVE KeepLast(_)
KeepLast(measures) ==
    IF measures = <<>> THEN <<>>
    ELSE IF Head(measures).metric \in MetricKeys(Tail(measures))
    THEN KeepLast(Tail(measures))
    ELSE <<Head(measures)>> \o KeepLast(Tail(measures))

(* C17: when a metric occurs more than once in one sequence, the value of  *)
(* its last occurrence is the one the side is compared with, for the       *)
(* displayed value and for diff: the metric has a single entry, the entry  *)
(* is the one the sequences with only the last occurrence of each metric   *)
(* give, diff counts the number of the last value, the displayed value is  *)
(* the last value (C15: "0" when that value is empty), and no error is     *)
(* raised.                                                                 *)
C17_LastOccurrenceWins ==
    /\ pc # "threw"
    /\ (Compared /\ MeasuresPresent) =>
        LET changes == result.measuresChange.changes
            from    == fromData.measures.items
            to      == toData.measures.items
            last    == compareMeasures(Arr(KeepLast(from)),
                                       Arr(KeepLast(to))).changes
        IN  /\ Len(changes) = Cardinality(KeySet(changes))
            /\ KeySet(last) = KeySet(changes)
            /\ \A i \in 1..Len(changes) :
                 LET metric == changes[i].key
                     change == changes[i].value
                 IN  /\ change = ObjGet(last, metric)
                     /\ Repeated(from, metric) =>
                          /\ change.from =
                               (IF LastValue(from, metric) = "" THEN "0"
                                ELSE LastValue(from, metric))
                          /\ change.diff = SideNumber(to, metric)
                               - NumberOf(LastValue(from, metric))
                     /\ Repeated(to, metric) =>
                          /\ change.to =
                               (IF LastValue(to, metric) = "" THEN "0"
                                ELSE LastValue(to, metric))
                          /\ change.diff = NumberOf(LastValue(to, metric))
                               - SideNumber(from, metric)

\* The earlier snapshot has coverage twice, "-3" and then "7x".
C17_Witness ==
    /\ pc = "done"
    /\ MeasuresPresent
    /\ fromData.measures.items =
         <<Measure("coverage", "-3"), Measure("coverage", "7x")>>
    /\ Len(result.measuresChange.changes) = 1
    /\ ObjGet(result.measuresChange.changes, "coverage").from = "7x"
    /\ ObjGet(result.measuresChange.changes, "coverage").diff = -7

-----------------------------------------------------------------------------
(* JSON.stringify(value, null, 2) and JSON.parse                           *)
(*                                                                         *)
(* What is handed to JSON.stringify and what JSON.parse returns is a       *)
(* value with its type: Undefined, Null, Bool(b), Number(n), Str(s),       *)
(* Arr(items) or Obj(props), props being the properties in insertion       *)
(* order.  A JSON text is the sequence of its tokens; the line break and   *)
(* the indentation that the third argument asks for are one token.  The    *)
(* other texts of the program are the rows of a CSV and the lines of a     *)
(* text report, and neither is a JSON text.                                *)

JsonText(tokens) == [kind |-> "json", text |-> tokens]

CsvText(rows) == [kind |-> "csv", text |-> rows]

ReportText(lines) == [kind |-> "text", text |-> lines]

Null == [type |-> "null"]

Bool(b) == [type |-> "boolean", b |-> b]

Number(n) == [type |-> "number", n |-> n]

Obj(props) == [type |-> "object", props |-> props]

Prop(key, value) == [key |-> key, value |-> value]

\* value[key]
Get(value, key) ==
    IF value.type = "object" /\ HasKey(value.props, key)
    THEN ObjGet(value.props, key)
    ELSE Undefined

Tok(kind) == [tok |-> kind]

StringTok(s) == [tok |-> "string", s |-> s]

NumberTok(n) == [tok |-> "number", n |-> n]

Indent == Tok("indent")

SyntaxError == [error |-> "SyntaxError"]

\* The properties without those that are falsy.
TruthyProps(props) ==
    SelectSeq(props,
              LAMBDA p : /\ p.value.type \notin {"undefined", "null"}
                         /\ p.value.type = "boolean" => p.value.b
                         /\ p.value.type = "number" => p.value.n # 0)

\* The properties that have a text: a property whose value is undefined is
\* left out.
SerializableProps(props) ==
    SelectSeq(props, LAMBDA p : p.value.type # "undefined")

RECURSIVE SerializeJSONProperty(_)
RECURSIVE SerializeJSONObject(_)
RECURSIVE SerializeJSONArray(_)

\* The members of an object: "key": value, one to a line.
SerializeJSONObject(props) ==
    LET member == <<StringTok(Head(props).key), Tok(":")>>
                    \o SerializeJSONProperty(Head(props).value)
    IN  IF Len(props) = 1 THEN member
        ELSE member \o <<Tok(","), Indent>> \o SerializeJSONObject(Tail(props))

\* The elements of an array, one to a line; undefined is written null.
SerializeJSONArray(items) ==
    LET element == IF Head(items).type = "undefined" THEN <<Tok("null")>>
                   ELSE SerializeJSONProperty(Head(items))
    IN  IF Len(items) = 1 THEN element
        ELSE element \o <<Tok(","), Indent>> \o SerializeJSONArray(Tail(items))

\* The text of a value that has one; the numbers of the model are finite.
SerializeJSONProperty(value) ==
    CASE value.type = "null"    -> <<Tok("null")>>
      [] value.type = "boolean" -> <<Tok(IF value.b THEN "true" ELSE "false")>>
      [] value.type = "number"  -> <<NumberTok(value.n)>>
      [] value.type = "string"  -> <<StringTok(value.s)>>
      [] value.type = "array"   ->
           IF value.items = <<>> THEN <<Tok("["), Tok("]")>>
           ELSE <<Tok("["), Indent>> \o SerializeJSONArray(value.items)
                  \o <<Indent, Tok("]")>>
      [] value.type = "object"  ->
           LET props == SerializableProps(value.props)
           IN  IF props = <<>> THEN <<Tok("{"), Tok("}")>>
               ELSE <<Tok("{"), Indent>> \o SerializeJSONObject(props)
                      \o <<Indent, Tok("}")>>

\* JSON.stringify(value, null, 2): undefined has no text.
JSONstringify(value) ==
    IF value.type = "undefined" THEN Undefined
    ELSE JsonText(SerializeJSONProperty(value))

RECURSIVE SkipIndent(_)
\* White space between tokens is skipped.
SkipIndent(text) ==
    IF text # <<>> /\ Head(text) = Indent THEN SkipIndent(Tail(text)) ELSE text

\* A value read and the text after it; no value when the text is no JSON.
Parsed(value, rest) == [value |-> value, rest |-> rest]

NotParsed == Parsed(SyntaxError, <<>>)

RECURSIVE ParseValue(_)
RECURSIVE ParseElements(_, _)
RECURSIVE ParseMembers(_, _)

\* The elements of an array, text being what follows "[" or ",".
ParseElements(text, items) ==
    IF text # <<>> /\ Head(text).tok = "]" /\ items = <<>>
    THEN Parsed(Arr(<<>>), Tail(text))
    ELSE LET element == ParseValue(text)
             after   == SkipIndent(element.rest)
         IN  IF element.value = SyntaxError \/ after = <<>> THEN NotParsed
             ELSE IF Head(after).tok = ","
             THEN ParseElements(SkipIndent(Tail(after)),
                                Append(items, element.value))
             ELSE IF Head(after).tok = "]"
             THEN Parsed(Arr(Append(items, element.value)), Tail(after))
             ELSE NotParsed

\* The members of an object, text being what follows "{" or ","; a key
\* read twice keeps its last value.
ParseMembers(text, props) ==
    IF text = <<>> THEN NotParsed
    ELSE IF Head(text).tok = "}" /\ props = <<>>
    THEN Parsed(Obj(<<>>), Tail(text))
    ELSE IF Head(text).tok # "string" THEN NotParsed
    ELSE LET key   == Head(text).s
             colon == SkipIndent(Tail(text))
         IN  IF colon = <<>> \/ Head(colon).tok # ":" THEN NotParsed
             ELSE LET member == ParseValue(Tail(colon))
                      after  == SkipIndent(member.rest)
                  IN  IF member.value = SyntaxError \/ after = <<>>
                      THEN NotParsed
                      ELSE IF Head(after).tok = ","
                      THEN ParseMembers(SkipIndent(Tail(after)),
                                        ObjSet(props, key, member.value))
                      ELSE IF Head(after).tok = "}"
                      THEN Parsed(Obj(ObjSet(props, key, member.value)),
                                  Tail(after))
                      ELSE NotParsed

ParseValue(text) ==
    LET tokens == SkipIndent(text)
    IN  IF tokens = <<>> THEN NotParsed
        ELSE LET token == Head(tokens)
                 rest  == Tail(tokens)
             IN  CASE token.tok = "null"   -> Parsed(Null, rest)
                   [] token.tok = "true"   -> Parsed(Bool(TRUE), rest)
                   [] token.tok = "false"  -> Parsed(Bool(FALSE), rest)
                   [] token.tok = "number" -> Parsed(Number(token.n), rest)
                   [] token.tok = "string" -> Parsed(Str(token.s), rest)
                   [] token.tok = "["      ->
                        ParseElements(SkipIndent(rest), <<>>)
                   [] token.tok = "{"      ->
                        ParseMembers(SkipIndent(rest), <<>>)
                   [] OTHER                -> NotParsed

\* JSON.parse(text): the value of a text that is one JSON value and nothing
\* after it; a SyntaxError is thrown for any other text.
JSONparse(content) ==
    IF content.kind # "json" THEN SyntaxError
    ELSE LET parsed == ParseValue(content.text)
         IN  IF parsed.value = SyntaxError \/ SkipIndent(parsed.rest) # <<>>
             THEN SyntaxError
             ELSE parsed.value

-----------------------------------------------------------------------------
(* The Comparison as the value that compareQualityData returns.            *)

CountChangeValue(change) ==
    Obj(<<Prop("from", Number(change.from)), Prop("to", Number(change.to)),
          Prop("diff", Number(change.diff)),
          Prop("improved", Bool(change.improved))>>)

MeasureChangeValue(change) ==
    Obj(<<Prop("from", Str(change.from)), Prop("to", Str(change.to)),
          Prop("diff", Number(change.diff)),
          Prop("improved", Bool(change.improved))>>)

QualityGateChangeValue(block) ==
    IF ~block.available THEN Obj(<<Prop("available", Bool(FALSE))>>)
    ELSE Obj(<<Prop("available", Bool(TRUE)),
               Prop("fromStatus", block.fromStatus),
               Prop("toStatus", block.toStatus),
               Prop("improved", Bool(block.improved)),
               Prop("degraded", Bool(block.degraded))>>)

MeasuresChangeValue(block) ==
    IF ~block.available THEN Obj(<<Prop("available", Bool(FALSE))>>)
    ELSE Obj(<<Prop("available", Bool(TRUE)),
               Prop("changes",
                    Obj([i \in 1..Len(block.changes) |->
                           Prop(block.changes[i].key,
                                MeasureChangeValue(block.changes[i].value))]))>>)

IssuesChangeValue(block) ==
    IF ~block.available THEN Obj(<<Prop("available", Bool(FALSE))>>)
    ELSE Obj(<<Prop("available", Bool(TRUE)),
               Prop("changes",
                    Obj([i \in 1..Len(block.changes) |->
                           Prop(block.changes[i].key,
                                CountChangeValue(block.changes[i].value))])),
               Prop("total", CountChangeValue(block.total))>>)

Strings(lines) == Arr([i \in 1..Len(lines) |-> Str(lines[i])])

SummaryValue(summary) ==
    IF "qualityGate" \notin DOMAIN summary THEN Obj(<<>>)
    ELSE Obj(<<Prop("qualityGate", Str(summary.qualityGate)),
               Prop("improvements", Strings(summary.improvements)),
               Prop("degradations", Strings(summary.degradations))>>)

ComparisonValue(comparison) ==
    Obj(<<Prop("project", Str(comparison.project)),
          Prop("fromDate", Str(comparison.fromDate)),
          Prop("toDate", Str(comparison.toDate)),
          Prop("qualityGateChange",
               QualityGateChangeValue(comparison.qualityGateChange)),
          Prop("measuresChange",
               MeasuresChangeValue(comparison.measuresChange)),
          Prop("issuesChange", IssuesChangeValue(comparison.issuesChange)),
          Prop("summary", SummaryValue(comparison.summary))>>)

-----------------------------------------------------------------------------
(* Storage: the files of the output directory, each a name and the text    *)
(* it holds.  A file name is the sequence of its pieces, as a template     *)
(* string is.                                                              *)

Error(message) == [error |-> message]

IsError(value) == "error" \in DOMAIN value

\* fs.existsSync
FileExists(files, name) == \E f \in files : f.name = name

\* fs.readFileSync of a file that exists
ReadFile(files, name) == (CHOOSE f \in files : f.name = name).content

\* fs.writeFileSync
WriteFile(files, name, content) ==
    {f \in files : f.name # name} \cup {[name |-> name, content |-> content]}

\* saveData(data, filename): the files after it.
saveData(files, value, filename) ==
    WriteFile(files, filename, JSONstringify(value))

\* loadData that takes a file that is not there as an empty object.
loadDataOrEmpty(files, filename) ==
    IF ~FileExists(files, filename) THEN Obj(<<>>)
    ELSE JSONparse(ReadFile(files, filename))

\* loadData(filename): the value returned, or the error thrown.
loadData(files, filename) ==
    IF ~FileExists(files, filename) THEN Error("file does not exist")
    ELSE JSONparse(ReadFile(files, filename))

\* The Comparison is saved and loaded again.
SaveData ==
    /\ pc = "done"
    /\ disk' = saveData(disk, ComparisonValue(result), <<"comparison.json">>)
    /\ trace' = Append(trace, [op |-> "write", name |-> <<"comparison.json">>])
    /\ pc' = "stored"
    /\ UNCHANGED <<fromData, toData, result, options, ret, error, apiVars>>

LoadData ==
    /\ pc = "stored"
    /\ LET loaded == loadData(disk, <<"comparison.json">>)
       IN  IF IsError(loaded)
           THEN /\ pc' = "threw"
                /\ error' = loaded
                /\ UNCHANGED <<ret, trace>>
           ELSE /\ pc' = "reloaded"
                /\ ret' = loaded
                /\ trace' = Append(trace, [op |-> "read",
                                           name |-> <<"comparison.json">>])
                /\ UNCHANGED error
    /\ UNCHANGED <<fromData, toData, result, options, disk, apiVars>>

NextRoundTrip == Next \/ SaveData \/ LoadData

SpecRoundTrip == Init /\ [][NextRoundTrip]_vars

RECURSIVE JsonEqual(_, _)
\* Two values are structurally equal, the order of keys aside.
JsonEqual(a, b) ==
    /\ a.type = b.type
    /\ CASE a.type = "object" ->
              /\ KeySet(a.props) = KeySet(b.props)
              /\ Len(a.props) = Len(b.props)
              /\ \A k \in KeySet(a.props) :
                   JsonEqual(ObjGet(a.props, k), ObjGet(b.props, k))
         [] a.type = "array" ->
              /\ Len(a.items) = Len(b.items)
              /\ \A i \in 1..Len(a.items) : JsonEqual(a.items[i], b.items[i])
         [] OTHER -> a = b

\* The properties of the gate block but the statuses that are undefined.
WithoutUndefinedStatus(value) ==
    Obj([i \in 1..Len(value.props) |->
           IF value.props[i].key = "qualityGateChange"
           THEN Prop("qualityGateChange",
                     Obj(SelectSeq(value.props[i].value.props,
                                   LAMBDA p : p.value # Undefined)))
           ELSE value.props[i]])

\* A status of the gate block of the Comparison is undefined.
UndefinedStatus ==
    /\ result.qualityGateChange.available
    /\ Undefined \in {result.qualityGateChange.fromStatus,
                      result.qualityGateChange.toStatus}

(* C14, as claimed: the value parsed from the JSON text of a Comparison is *)
(* structurally equal to the Comparison, field for field.                  *)
C14_RoundTripEqual ==
    pc = "reloaded" => JsonEqual(ret, ComparisonValue(result))

(* C14, amended: the value parsed from the JSON text of a Comparison is    *)
(* structurally equal to the Comparison except for the fields whose value  *)
(* is undefined, which the text leaves out: fromStatus and toStatus of a   *)
(* gate that has no status are missing in the parsed value, every other    *)
(* field is equal, and so is the whole when both statuses are defined;     *)
(* saving and loading raise no error.                                      *)
C14_RoundTripButUndefined ==
    /\ pc # "threw"
    /\ pc = "reloaded" =>
         /\ JsonEqual(ret, WithoutUndefinedStatus(ComparisonValue(result)))
         /\ ~UndefinedStatus => JsonEqual(ret, ComparisonValue(result))
         /\ UndefinedStatus => ~JsonEqual(ret, ComparisonValue(result))

\* A Comparison with measures, summary lines and defined statuses has been
\* saved and loaded.
C14_Witness ==
    /\ pc = "reloaded"
    /\ ~UndefinedStatus
    /\ result.measuresChange.available
    /\ Len(result.measuresChange.changes) > 1
    /\ Len(result.summary.improvements) > 0
    /\ Get(Get(ret, "summary"), "improvements")
         = Strings(result.summary.improvements)

-----------------------------------------------------------------------------
(* A snapshot as the value a data file holds, and the snapshot that        *)
(* compareQualityData reads in a value loaded from one.                    *)

MeasureValue(measure) ==
    Obj(<<Prop("metric", Str(measure.metric)),
          Prop("value", Str(measure.value))>>)

IssueValue(issue) ==
    Obj(<<Prop("component", Str(issue.component))>>
          \o (IF "severity" \in DOMAIN issue
              THEN <<Prop("severity", Str(issue.severity))>> ELSE <<>>))

MeasuresValue(measures) ==
    IF measures = Undefined THEN Undefined
    ELSE IF ~IsArray(measures) THEN Obj(<<>>)
    ELSE Arr([i \in 1..Len(measures.items) |-> MeasureValue(measures.items[i])])

IssuesValue(issues) ==
    IF issues = Undefined THEN Undefined
    ELSE IF ~IsArray(issues) THEN Obj(<<>>)
    ELSE Arr([i \in 1..Len(issues.items) |-> IssueValue(issues.items[i])])

SnapshotValue(snapshot) ==
    Obj(<<Prop("projectInfo",
               IF snapshot.projectInfo = Undefined THEN Undefined
               ELSE Obj(<<Prop("name", snapshot.projectInfo.name)>>)),
          Prop("qualityGate",
               IF snapshot.qualityGate = Undefined THEN Undefined
               ELSE Obj(<<Prop("status", snapshot.qualityGate.status)>>)),
          Prop("measures", MeasuresValue(snapshot.measures)),
          Prop("issues", IssuesValue(snapshot.issues)),
          Prop("timestamp", snapshot.timestamp)>>)

\* undefined and null are the values without properties.
Nullish(value) == value.type \in {"undefined", "null"}

\* A field that the model holds as a string or undefined.
StringOf(value) == IF value.type = "string" THEN value ELSE Undefined

MeasuresOf(value) ==
    IF Nullish(value) THEN Undefined
    ELSE IF value.type # "array" THEN NotArray
    ELSE Arr([i \in 1..Len(value.items) |->
                Measure(Get(value.items[i], "metric").s,
                        Get(value.items[i], "value").s)])

IssuesOf(value) ==
    IF Nullish(value) THEN Undefined
    ELSE IF value.type # "array" THEN NotArray
    ELSE Arr([i \in 1..Len(value.items) |->
                IF Get(value.items[i], "severity") = Undefined
                THEN [component |-> Get(value.items[i], "component").s]
                ELSE [component |-> Get(value.items[i], "component").s,
                      severity  |-> Get(value.items[i], "severity").s]])

\* The loaded value as compareQualityData reads it; null has no fields.
SnapshotOf(value) ==
    IF Nullish(value) THEN Undefined
    ELSE [projectInfo |-> IF Nullish(Get(value, "projectInfo")) THEN Undefined
                          ELSE [type |-> "object",
                                name |-> StringOf(Get(Get(value, "projectInfo"),
                                                      "name"))],
          qualityGate |-> IF Nullish(Get(value, "qualityGate")) THEN Undefined
                          ELSE [type   |-> "object",
                                status |-> StringOf(Get(Get(value,
                                                            "qualityGate"),
                                                        "status"))],
          measures    |-> MeasuresOf(Get(value, "measures")),
          issues      |-> IssuesOf(Get(value, "issues")),
          timestamp   |-> StringOf(Get(value, "timestamp"))]

-----------------------------------------------------------------------------
(* Formatter: toJSON, toCSV, toTextReport and saveToFile.  The messages    *)
(* and labels of the source are Chinese; the model has them in English.    *)

\* !!value, for the values of the model; strings here are plain ones.
Truthy(value) ==
    /\ ~Nullish(value)
    /\ value.type = "boolean" => value.b
    /\ value.type = "number" => value.n # 0
    /\ value.type = "string" => value.s # ""

toJSON(value) == JSONstringify(value)

\* toCSV(data, headers): the header row and a row for each element, or the
\* error thrown for data that is no array.  No value of the model holds a
\* comma, so none is quoted.
toCSV(value, headers) ==
    IF value.type # "array" THEN Error("CSV formatting needs array data")
    ELSE CsvText(<<headers>>
                   \o [i \in 1..Len(value.items) |->
                         [h \in 1..Len(headers) |->
                            IF Truthy(Get(value.items[i], headers[h]))
                            THEN Get(value.items[i], headers[h])
                            ELSE Str("")]])

metricLabels ==
    <<Prop("ncloc", "lines of code"), Prop("coverage", "test coverage"),
      Prop("duplicated_lines_density", "duplicated code"),
      Prop("bugs", "bugs"), Prop("vulnerabilities", "vulnerabilities"),
      Prop("code_smells", "code smells"),
      Prop("security_hotspots", "security hotspots")>>

\* - <label>: <value>, with % after a coverage or a duplication density
MeasureLineOfReport(measure) ==
    LET metric == Get(measure, "metric").s
        label  == IF HasKey(metricLabels, metric)
                  THEN ObjGet(metricLabels, metric) ELSE metric
    IN  <<"- ", label, ": ", Get(measure, "value")>>
          \o (IF metric \in {"coverage", "duplicated_lines_density"}
              THEN <<"%">> ELSE <<>>)

\* The issues of a severity, an issue without severity counting as UNKNOWN.
IssuesOfSeverity(issues, severity) ==
    SelectSeq(issues,
              LAMBDA issue :
                 (IF Truthy(Get(issue, "severity"))
                  THEN Get(issue, "severity").s ELSE "UNKNOWN") = severity)

severityOrder == <<"BLOCKER", "CRITICAL", "MAJOR", "MINOR", "INFO">>

RECURSIVE SeverityLines(_, _)
\* - <severity>: <n> issues, for the severities of the order that occur
SeverityLines(issues, order) ==
    IF order = <<>> THEN <<>>
    ELSE (IF IssuesOfSeverity(issues, Head(order)) # <<>>
          THEN <<<<"- ", Head(order), ": ",
                   Len(IssuesOfSeverity(issues, Head(order))), " issues">>>>
          ELSE <<>>)
           \o SeverityLines(issues, Tail(order))

\* toTextReport(data): the lines of the report, or the error thrown.
toTextReport(value) ==
    LET projectInfo == Get(value, "projectInfo")
        qualityGate == Get(value, "qualityGate")
        measures    == Get(value, "measures")
        issues      == Get(value, "issues")
    IN  IF ~Truthy(projectInfo) \/ ~Truthy(qualityGate) \/ ~Truthy(measures)
        THEN Error("invalid report data")
        ELSE IF measures.type # "array" THEN TypeError
        ELSE ReportText(
               <<<<"# SonarCloud quality report: ", Get(projectInfo, "name")>>,
                 <<"generated: ", "now">>,
                 <<"## quality gate">>,
                 <<"status: ", IF Get(qualityGate, "status") = Str("OK")
                               THEN "passed" ELSE "failed">>,
                 <<"## metrics">>>>
                 \o [i \in 1..Len(measures.items) |->
                       MeasureLineOfReport(measures.items[i])]
                 \o (IF issues.type = "array" /\ issues.items # <<>>
                     THEN <<<<"## issues">>>>
                            \o SeverityLines(issues.items, severityOrder)
                     ELSE <<>>))

extensions == <<Prop("json", ".json"), Prop("csv", ".csv"), Prop("text", ".txt")>>

\* saveToFile(data, filename, format, headers): the files after it and the
\* path written, or the error thrown before anything is written.
saveToFile(files, value, filename, format, headers) ==
    LET ext      == IF HasKey(extensions, format)
                    THEN ObjGet(extensions, format) ELSE ".json"
        filepath == Append(filename, ext)
        content  == CASE format = "csv"  -> toCSV(value, headers)
                      [] format = "text" -> toTextReport(value)
                      [] OTHER           -> toJSON(value)
    IN  IF IsError(content) THEN content
        ELSE [files    |-> WriteFile(files, filepath, content),
              filepath |-> filepath]

-----------------------------------------------------------------------------
(* compareData                                                             *)

defaultProjectKey == "henry1266_pharmacy-pos"

defaultFormat == "json"

\* !name, for an option that is a file name or undefined.
NoName(option) == option = Undefined \/ option.s = <<>>

\* The format option, or the default it has when it is undefined.
FormatOr(option, dflt) == IF option = Undefined THEN dflt ELSE option.s

\* output || `${project}_<kind>_${timestamp}`
FilenameOr(option, project, kind) ==
    IF NoName(option) THEN <<project, kind, "now">> ELSE option.s

\* The snapshots of the two data files of the model.
FromSnapshot ==
    Plain(Gate("ERROR"), Arr(<<Measure("coverage", "2")>>),
          Arr(<<Issue("MAJOR")>>), "2025-05-01")

ToSnapshot ==
    Plain(Gate("OK"), Arr(<<Measure("coverage", "5")>>), Arr(<<>>),
          "2025-05-25")

\* What a data file may hold: a snapshot, null, or a text cut short.
DataTexts(snapshot) ==
    {JSONstringify(SnapshotValue(snapshot)), JSONstringify(Null),
     JsonText(<<Tok("{"), Indent, StringTok("projectInfo")>>)}

\* The output directories compareData may find: each of the two data files
\* is there or not.
DataDirs ==
    {from \cup to :
       <<from, to>> \in
          ({{}} \cup {{[name |-> <<"from.json">>, content |-> c]} :
                        c \in DataTexts(FromSnapshot)})
          \X ({{}} \cup {{[name |-> <<"to.json">>, content |-> c]} :
                           c \in DataTexts(ToSnapshot)})}

CompareOptions ==
    {[command |-> "compare", project |-> defaultProjectKey,
      from |-> o[1], to |-> o[2], format |-> o[3], output |-> o[4]] :
       o \in {Undefined, Str(<<>>), Str(<<"from.json">>)}
             \X {Undefined, Str(<<"to.json">>)}
             \X {Undefined, Str("json"), Str("text"), Str("csv")}
             \X {Undefined, Str(<<"out">>)}}

\* compareData(options) is called.
InitCompareData ==
    /\ options \in CompareOptions
    /\ disk \in DataDirs
    /\ pc = "compareData"
    /\ fromData = Undefined
    /\ toData = Undefined
    /\ result = NoResult
    /\ ret = Undefined
    /\ error = Undefined
    /\ trace = <<>>
    /\ NoRequests

\* if (!from || !to) throw new Error(...)
CheckParameters ==
    /\ pc = "compareData"
    /\ IF NoName(options.from) \/ NoName(options.to)
       THEN /\ pc' = "threw"
            /\ error' = Error("from and to must be given")
       ELSE /\ pc' = "loadFrom"
            /\ UNCHANGED error
    /\ UNCHANGED <<fromData, toData, result, options, disk, ret, trace,
                   apiVars>>

\* const fromData = storage.loadData(from)
LoadFrom ==
    /\ pc = "loadFrom"
    /\ LET loaded == loadData(disk, options.from.s)
       IN  IF IsError(loaded)
           THEN /\ pc' = "threw"
                /\ error' = loaded
                /\ UNCHANGED <<fromData, trace>>
           ELSE /\ pc' = "loadTo"
                /\ fromData' = SnapshotOf(loaded)
                /\ trace' = Append(trace, [op |-> "read",
                                           name |-> options.from.s])
                /\ UNCHANGED error
    /\ UNCHANGED <<toData, result, options, disk, ret, apiVars>>

\* const toData = storage.loadData(to)
LoadTo ==
    /\ pc = "loadTo"
    /\ LET loaded == loadData(disk, options.to.s)
       IN  IF IsError(loaded)
           THEN /\ pc' = "threw"
                /\ error' = loaded
                /\ UNCHANGED <<toData, trace>>
           ELSE /\ pc' = "loaded"
                /\ toData' = SnapshotOf(loaded)
                /\ trace' = Append(trace, [op |-> "read",
                                           name |-> options.to.s])
                /\ UNCHANGED error
    /\ UNCHANGED <<fromData, result, options, disk, ret, apiVars>>

\* const filepath = formatter.saveToFile(comparison, filename, format)
SaveComparison ==
    /\ pc = "done"
    /\ LET saved == saveToFile(disk, ComparisonValue(result),
                               FilenameOr(options.output, options.project,
                                          "_quality_comparison_"),
                               FormatOr(options.format, defaultFormat), <<>>)
       IN  IF IsError(saved)
           THEN /\ pc' = "threw"
                /\ error' = saved
                /\ UNCHANGED <<disk, trace>>
           ELSE /\ pc' = "saved"
                /\ disk' = saved.files
                /\ trace' = Append(trace, [op |-> "write",
                                           name |-> saved.filepath])
                /\ UNCHANGED error
    /\ UNCHANGED <<fromData, toData, result, options, ret, apiVars>>

\* return { success: true, message, comparison, filepath }
ReturnComparison ==
    /\ pc = "saved"
    /\ options.command = "compare"
    /\ ret' = [success    |-> TRUE,
               message    |-> <<"comparison saved to: ",
                                trace[Len(trace)].name>>,
               comparison |-> result,
               filepath   |-> trace[Len(trace)].name]
    /\ pc' = "returned"
    /\ UNCHANGED <<fromData, toData, result, options, disk, error, trace,
                   apiVars>>

\* catch (error) { return { success: false, message } }
CatchCompareError ==
    /\ pc = "threw"
    /\ options.command = "compare"
    /\ ret' = [success |-> FALSE,
               message |-> <<"comparison failed: ", error.error>>]
    /\ error' = Undefined
    /\ pc' = "returned"
    /\ UNCHANGED <<fromData, toData, result, options, disk, trace, apiVars>>

NextCompareData ==
    \/ CheckParameters
    \/ LoadFrom
    \/ LoadTo
    \/ BuildResult
    \/ Summarize
    \/ SaveComparison
    \/ ReturnComparison
    \/ CatchCompareError

SpecCompareData == InitCompareData /\ [][NextCompareData]_vars

-----------------------------------------------------------------------------
(* SonarCloudAPI                                                           *)

\* The requests of getFullQualityReport, in the order of the array given
\* to Promise.all, under the names of the fields of the report.
endpoints ==
    <<"projectInfo", "qualityGate", "measures", "issues", "coverageDetails">>

Endpoints == {endpoints[i] : i \in DOMAIN endpoints}

IndexOf(e) == CHOOSE i \in DOMAIN endpoints : endpoints[i] = e

\* The message each request hands to _handleError.
messages ==
    [projectInfo     |-> "project info failed",
     qualityGate     |-> "quality gate status failed",
     measures        |-> "project measures failed",
     issues          |-> "project issues failed",
     coverageDetails |-> "coverage details failed"]

ApiMeasure(metric, value) ==
    Obj(<<Prop("metric", Str(metric)), Prop("value", Str(value))>>)

ApiIssue(key, severity, type) ==
    Obj(<<Prop("key", Str(key)), Prop("message", Str("fix this")),
          Prop("severity", severity), Prop("type", Str(type)),
          Prop("component", Str("henry1266_pharmacy-pos:src/app.js"))>>)

\* What the server may answer to each request: the part of response.data
\* the request reads.
ResponseData ==
    [projectInfo     |-> {Arr(<<>>),
                          Arr(<<Obj(<<Prop("key", Str(defaultProjectKey)),
                                      Prop("name", Str("pharmacy-pos"))>>)>>)},
     qualityGate     |-> {Obj(<<Prop("status", Str("OK"))>>),
                          Obj(<<Prop("status", Str("ERROR")),
                                Prop("conditions", Arr(<<Obj(<<>>)>>))>>)},
     measures        |-> {Arr(<<>>),
                          Arr(<<ApiMeasure("coverage", "80"),
                                ApiMeasure("bugs", "0")>>)},
     issues          |-> {Arr(<<ApiIssue("a", Str("MAJOR"), "BUG"),
                                ApiIssue("b", Undefined, "BUG")>>)},
     coverageDetails |-> {Arr(<<Obj(<<Prop("key", Str("src"))>>)>>)}]

\* What a request returns for an answer: components[0] || null for the
\* project, the part of the answer for the others.
Returned(e, data) ==
    IF e = "projectInfo"
    THEN (IF data.items = <<>> THEN Null ELSE data.items[1])
    ELSE data

\* The errors of the HTTP client: the server answered with an error status
\* and no error list, or it did not answer.
AxiosErrors ==
    {[response |-> [status |-> "401", data |-> Obj(<<>>)]],
     [request |-> "sent"]}

\* _handleError(error, message): the error it throws.
handleError(err, message) ==
    IF "response" \in DOMAIN err
    THEN Error(<<message, ": ", err.response.status, " - ",
                 "API response error">>)
    ELSE IF "request" \in DOMAIN err
    THEN Error(<<message, ": no response - ",
                 "check the network connection or the API endpoint">>)
    ELSE Error(<<message, ": ", err.error>>)

NotAsked == [state |-> "none"]

Pending == [state |-> "pending"]

Fulfilled(value) == [state |-> "fulfilled", value |-> value]

Rejected(reason) == [state |-> "rejected", reason |-> reason]

\* Promise.all(requests): pending, no value yet.  first is the request
\* that settled first.
NewPromiseAll ==
    [state     |-> "pending",
     values    |-> [i \in DOMAIN endpoints |-> Undefined],
     remaining |-> Len(endpoints),
     first     |-> Undefined]

FirstOr(p, e) == IF p.first = Undefined THEN Str(e) ELSE p.first

\* The request at the next free place of the array is fulfilled.
PromiseAllResolveNext(p, e, value) ==
    [p EXCEPT !.values = [p.values EXCEPT
                            ![Len(endpoints) - p.remaining + 1] = value],
              !.remaining = p.remaining - 1,
              !.first = FirstOr(p, e),
              !.state = IF p.state = "pending" /\ p.remaining = 1
                        THEN "fulfilled" ELSE p.state]

\* The request e of the array is fulfilled: its value goes to its place,
\* and the promise is fulfilled with the last one.
PromiseAllResolveElement(p, e, value) ==
    [p EXCEPT !.values = [p.values EXCEPT ![IndexOf(e)] = value],
              !.remaining = p.remaining - 1,
              !.first = FirstOr(p, e),
              !.state = IF p.state = "pending" /\ p.remaining = 1
                        THEN "fulfilled" ELSE p.state]

\* A request of the array is rejected: the promise is rejected with the
\* first reason.
PromiseAllReject(p, e, reason) ==
    IF p.state = "pending"
    THEN [state |-> "rejected", values |-> p.values,
          remaining |-> p.remaining, first |-> FirstOr(p, e),
          reason |-> reason]
    ELSE p

\* const [projectInfo, qualityGate, measures, issues, coverageDetails] =
\* values; return { projectInfo, ..., timestamp }
FullQualityReport(values) ==
    Obj([i \in DOMAIN endpoints |-> Prop(endpoints[i], values[i])]
          \o <<Prop("timestamp", Str("now"))>>)

-----------------------------------------------------------------------------
(* generateReport: the templates                                           *)

\* value || dflt
OrElse(value, dflt) == IF Truthy(value) THEN value ELSE dflt

RECURSIVE MetricsReduce(_, _)
\* measures.reduce((obj, measure) => { obj[measure.metric] = measure.value })
MetricsReduce(obj, measures) ==
    IF measures = <<>> THEN obj
    ELSE MetricsReduce(ObjSet(obj, Get(Head(measures), "metric").s,
                              Get(Head(measures), "value")),
                       Tail(measures))

RECURSIVE CountsReduce(_, _, _)
\* issues.reduce((counts, issue) => { const k = issue[field] || 'UNKNOWN';
\* counts[k] = (counts[k] || 0) + 1 })
CountsReduce(counts, issues, field) ==
    IF issues = <<>> THEN counts
    ELSE LET k == OrElse(Get(Head(issues), field), Str("UNKNOWN")).s
         IN  CountsReduce(ObjSet(counts, k,
                                 Number(IF HasKey(counts, k)
                                        THEN ObjGet(counts, k).n + 1 ELSE 1)),
                          Tail(issues), field)

\* The templates read a property of projectInfo, of qualityGate, and call
\* reduce on measures and on issues when issues is truthy.
CannotSummarize(data) ==
    \/ Get(data, "measures").type # "array"
    \/ Truthy(Get(data, "issues")) /\ Get(data, "issues").type # "array"
    \/ Nullish(Get(data, "projectInfo"))
    \/ Nullish(Get(data, "qualityGate"))

generateSummaryReport(data) ==
    LET projectInfo == Get(data, "projectInfo")
        qualityGate == Get(data, "qualityGate")
        measures    == Get(data, "measures")
        issues      == Get(data, "issues")
        metricsObj  == Obj(MetricsReduce(<<>>, measures.items))
    IN  IF CannotSummarize(data) THEN TypeError
        ELSE Obj(<<
          Prop("project",
               Obj(<<Prop("name", Get(projectInfo, "name")),
                     Prop("key", Get(projectInfo, "key")),
                     Prop("lastAnalysisDate", Get(data, "timestamp"))>>)),
          Prop("qualityGate",
               Obj(<<Prop("status", Get(qualityGate, "status")),
                     Prop("passed",
                          Bool(Get(qualityGate, "status") = Str("OK")))>>)),
          Prop("metrics",
               Obj(<<Prop("codeSize",
                          OrElse(Get(metricsObj, "ncloc"), Str("N/A"))),
                     Prop("coverage",
                          OrElse(Get(metricsObj, "coverage"), Str("N/A"))),
                     Prop("duplications",
                          OrElse(Get(metricsObj, "duplicated_lines_density"),
                                 Str("N/A"))),
                     Prop("bugs",
                          OrElse(Get(metricsObj, "bugs"), Str("N/A"))),
                     Prop("vulnerabilities",
                          OrElse(Get(metricsObj, "vulnerabilities"),
                                 Str("N/A"))),
                     Prop("codeSmells",
                          OrElse(Get(metricsObj, "code_smells"), Str("N/A"))),
                     Prop("securityHotspots",
                          OrElse(Get(metricsObj, "security_hotspots"),
                                 Str("N/A")))>>)),
          Prop("issues",
               Obj(<<Prop("total", Number(IF Truthy(issues)
                                          THEN Len(issues.items) ELSE 0)),
                     Prop("bySeverity",
                          Obj(IF Truthy(issues)
                              THEN CountsReduce(<<>>, issues.items, "severity")
                              ELSE <<>>))>>))>>)

\* issue.component.replace('henry1266_pharmacy-pos:', ''), on the component
\* names of the model.
WithoutProject(component) ==
    IF component = Str("henry1266_pharmacy-pos:src/app.js")
    THEN Str("src/app.js") ELSE component

\* data.issues.slice(0, 10)
latestIssues == 10

Slice(items, n) == SubSeq(items, 1, IF Len(items) < n THEN Len(items) ELSE n)

\* An issue whose component is no string has no replace to call.
NoComponent(issues) ==
    \E i \in 1..Len(issues) : Get(issues[i], "component").type # "string"

generateDetailedReport(data) ==
    LET summary  == generateSummaryReport(data)
        issues   == Get(data, "issues")
        measures == Get(data, "measures")
        coverage == SelectSeq(measures.items,
                              LAMBDA m : Get(m, "metric") = Str("coverage"))
        latest   == Slice(issues.items, latestIssues)
    IN  IF IsError(summary) THEN summary
        ELSE IF Truthy(issues) /\ NoComponent(latest) THEN TypeError
        ELSE Obj(ObjSet(ObjSet(ObjSet(ObjSet(summary.props,
          "qualityGate",
             Obj(Get(summary, "qualityGate").props
                   \o <<Prop("conditions",
                             OrElse(Get(Get(data, "qualityGate"),
                                        "conditions"), Arr(<<>>)))>>)),
          "metrics",
             Obj(Get(summary, "metrics").props
                   \o <<Prop("all",
                             Obj(MetricsReduce(<<>>, measures.items)))>>)),
          "issues",
             Obj(Get(summary, "issues").props
                   \o <<Prop("byType",
                             Obj(IF Truthy(issues)
                                 THEN CountsReduce(<<>>, issues.items, "type")
                                 ELSE <<>>)),
                        Prop("latest",
                             Arr(IF Truthy(issues)
                                 THEN [i \in 1..Len(latest) |->
                                         Obj(<<Prop("key", Get(latest[i], "key")),
                                               Prop("message",
                                                    Get(latest[i], "message")),
                                               Prop("severity",
                                                    Get(latest[i], "severity")),
                                               Prop("type",
                                                    Get(latest[i], "type")),
                                               Prop("component",
                                                    WithoutProject(
                                                      Get(latest[i],
                                                          "component")))>>)]
                                 ELSE <<>>))>>)),
          "coverage",
             Obj(<<Prop("overall",
                        OrElse(IF coverage = <<>> THEN Undefined
                               ELSE Get(coverage[1], "value"), Str("N/A"))),
                   Prop("details",
                        OrElse(Get(data, "coverageDetails"), Arr(<<>>)))>>)))

\* The issue as the issues report lists it.
IssueItem(issue) ==
    Obj(<<Prop("key", Get(issue, "key")),
          Prop("message", Get(issue, "message")),
          Prop("component", WithoutProject(Get(issue, "component"))),
          Prop("line", Get(issue, "line")),
          Prop("type", Get(issue, "type")),
          Prop("creationDate", Get(issue, "creationDate"))>>)

RECURSIVE GroupsReduce(_, _)
\* issues.reduce((groups, issue) => { groups[severity].push({...}) })
GroupsReduce(groups, issues) ==
    IF issues = <<>> THEN groups
    ELSE LET k == OrElse(Get(Head(issues), "severity"), Str("UNKNOWN")).s
         IN  GroupsReduce(ObjSet(groups, k,
                                 Append(IF HasKey(groups, k)
                                        THEN ObjGet(groups, k) ELSE <<>>,
                                        IssueItem(Head(issues)))),
                          Tail(issues))

generateIssuesReport(data) ==
    LET projectInfo == Get(data, "projectInfo")
        issues      == Get(data, "issues")
        groups      == GroupsReduce(<<>>, issues.items)
    IN  IF Nullish(projectInfo) THEN TypeError
        ELSE IF ~Truthy(issues) \/ issues.type # "array"
        THEN Obj(<<Prop("project", Get(projectInfo, "name")),
                   Prop("timestamp", Get(data, "timestamp")),
                   Prop("issues", Obj(<<Prop("total", Number(0)),
                                        Prop("items", Arr(<<>>))>>))>>)
        ELSE IF NoComponent(issues.items) THEN TypeError
        ELSE Obj(<<
          Prop("project", Get(projectInfo, "name")),
          Prop("timestamp", Get(data, "timestamp")),
          Prop("issues",
               Obj(<<Prop("total", Number(Len(issues.items))),
                     Prop("bySeverity",
                          Obj([i \in 1..Len(groups) |->
                                 Prop(groups[i].key,
                                      Number(Len(groups[i].value)))])),
                     Prop("items",
                          Arr([i \in 1..Len(groups) |->
                                 Obj(<<Prop("severity", Str(groups[i].key)),
                                       Prop("count",
                                            Number(Len(groups[i].value))),
                                       Prop("issues",
                                            Arr(groups[i].value))>>)]))>>))>>)

\* switch (template): the summary for a template that is none of the three.
TemplateReport(template, data) ==
    CASE template = "detailed" -> generateDetailedReport(data)
      [] template = "issues"   -> generateIssuesReport(data)
      [] OTHER                 -> generateSummaryReport(data)

-----------------------------------------------------------------------------
(* fetchData and generateReport                                            *)

FetchOptions ==
    {[command |-> "fetch", project |-> defaultProjectKey,
      format |-> o[1], output |-> o[2], metrics |-> o[3]] :
       o \in {Undefined, Str("json"), Str("text"), Str("csv")}
             \X {Undefined, Str(<<"out">>)}
             \X {Undefined, Str("coverage")}}

ReportOptions ==
    {[command |-> "report", project |-> defaultProjectKey,
      format |-> o[1], output |-> o[2], template |-> o[3]] :
       o \in {Undefined, Str("json"), Str("text")}
             \X {Undefined, Str(<<"out">>)}
             \X {Undefined, Str("detailed"), Str("issues")}}

\* fetchData(options) is called.
InitFetchData ==
    /\ options \in FetchOptions
    /\ disk = {}
    /\ pc = "fetchData"
    /\ fromData = Undefined
    /\ toData = Undefined
    /\ result = NoResult
    /\ ret = Undefined
    /\ error = Undefined
    /\ trace = <<>>
    /\ NoRequests

\* generateReport(options) is called.
InitGenerateReport ==
    /\ options \in ReportOptions
    /\ disk = {}
    /\ pc = "generateReport"
    /\ fromData = Undefined
    /\ toData = Undefined
    /\ result = NoResult
    /\ ret = Undefined
    /\ error = Undefined
    /\ trace = <<>>
    /\ NoRequests

\* data = await api.getFullQualityReport(project): the five requests are
\* made before the first await.
CallGetFullQualityReport ==
    /\ \/ pc = "generateReport"
       \/ pc = "fetchData" /\ options.metrics = Undefined
    /\ pc' = "awaitAll"
    /\ requests' = [e \in Endpoints |-> Pending]
    /\ promiseAll' = NewPromiseAll
    /\ UNCHANGED <<fromData, toData, result, error, commandVars, fetched,
                   report>>

\* data = await api.getProjectMeasures(project, metrics)
CallGetProjectMeasures ==
    /\ pc = "fetchData"
    /\ options.metrics # Undefined
    /\ pc' = "awaitMeasures"
    /\ requests' = [e \in Endpoints |->
                      IF e = "measures" THEN Pending ELSE NotAsked]
    /\ UNCHANGED <<fromData, toData, result, error, commandVars, promiseAll,
                   fetched, report>>

\* A response is handled when no code of the command is running: while the
\* command awaits, or after it returned.  What follows a settled await runs
\* to the return without a break: nothing after it waits for the outside.
Idle ==
    \/ pc = "awaitAll" /\ promiseAll.state = "pending"
    \/ pc = "awaitMeasures" /\ requests.measures = Pending
    \/ pc = "returned" /\ requests # Undefined

\* The server answers a request: the request returns the part it reads.
Fulfil(e) ==
    /\ Idle
    /\ requests[e] = Pending
    /\ \E data \in ResponseData[e] :
         /\ requests' = [requests EXCEPT
                           ![e] = Fulfilled(Returned(e, data))]
         /\ promiseAll' =
              IF promiseAll = Undefined THEN promiseAll
              ELSE PromiseAllResolveElement(promiseAll, e, Returned(e, data))
    /\ UNCHANGED <<fromData, toData, result, pc, error, commandVars, fetched,
                   report>>

\* A request fails: the request throws the error of _handleError.
Reject(e) ==
    /\ Idle
    /\ requests[e] = Pending
    /\ \E err \in AxiosErrors :
         /\ requests' = [requests EXCEPT
                           ![e] = Rejected(handleError(err, messages[e]))]
         /\ promiseAll' =
              IF promiseAll = Undefined THEN promiseAll
              ELSE PromiseAllReject(promiseAll, e,
                                    handleError(err, messages[e]))
    /\ UNCHANGED <<fromData, toData, result, pc, error, commandVars, fetched,
                   report>>

\* getFullQualityReport goes on after await Promise.all: it returns the
\* report, or throws the error of _handleError for the reason of the
\* rejection.
AwaitPromiseAll ==
    /\ pc = "awaitAll"
    /\ promiseAll.state # "pending"
    /\ IF promiseAll.state = "fulfilled"
       THEN /\ fetched' = FullQualityReport(promiseAll.values)
            /\ pc' = "fetched"
            /\ UNCHANGED error
       ELSE /\ error' = handleError(promiseAll.reason, "full report failed")
            /\ pc' = "threw"
            /\ UNCHANGED fetched
    /\ UNCHANGED <<fromData, toData, result, commandVars, requests,
                   promiseAll, report>>

\* fetchData goes on after await api.getProjectMeasures.
AwaitProjectMeasures ==
    /\ pc = "awaitMeasures"
    /\ requests.measures # Pending
    /\ IF requests.measures.state = "fulfilled"
       THEN /\ fetched' = requests.measures.value
            /\ pc' = "fetched"
            /\ UNCHANGED error
       ELSE /\ error' = requests.measures.reason
            /\ pc' = "threw"
            /\ UNCHANGED fetched
    /\ UNCHANGED <<fromData, toData, result, commandVars, requests,
                   promiseAll, report>>

\* Object.keys(data[0] || {})
HeadersOf(data) ==
    IF data.items = <<>> \/ ~Truthy(data.items[1]) THEN <<>>
    ELSE ObjKeys(data.items[1].props)

\* filepath = formatter.saveToFile(data, filename, format[, headers])
SaveFetched ==
    /\ pc = "fetched"
    /\ options.command = "fetch"
    /\ LET format == FormatOr(options.format, defaultFormat)
           saved  == saveToFile(disk, fetched,
                                FilenameOr(options.output, options.project,
                                           "_quality_report_"),
                                format,
                                IF format = "csv" /\ fetched.type = "array"
                                THEN HeadersOf(fetched) ELSE <<>>)
       IN  IF IsError(saved)
           THEN /\ pc' = "threw"
                /\ error' = saved
                /\ UNCHANGED <<disk, trace>>
           ELSE /\ pc' = "saved"
                /\ disk' = saved.files
                /\ trace' = Append(trace, [op |-> "write",
                                           name |-> saved.filepath])
                /\ UNCHANGED error
    /\ UNCHANGED <<fromData, toData, result, options, ret, apiVars>>

\* return { success: true, message, data, filepath }
ReturnFetched ==
    /\ pc = "saved"
    /\ options.command = "fetch"
    /\ ret' = [success  |-> TRUE,
               message  |-> <<"quality data saved to: ",
                              trace[Len(trace)].name>>,
               data     |-> fetched,
               filepath |-> trace[Len(trace)].name]
    /\ pc' = "returned"
    /\ UNCHANGED <<fromData, toData, result, options, disk, error, trace,
                   apiVars>>

\* catch (error) { return { success: false, message } }
CatchFetchError ==
    /\ pc = "threw"
    /\ options.command = "fetch"
    /\ ret' = [success |-> FALSE,
               message |-> <<"fetching data failed: ", error.error>>]
    /\ error' = Undefined
    /\ pc' = "returned"
    /\ UNCHANGED <<fromData, toData, result, options, disk, trace, apiVars>>

\* The template option, or summary when there is none.
TemplateOr(option) == IF option = Undefined THEN "summary" ELSE option.s

\* switch (template) { ... report = generate...Report(data) }
BuildReport ==
    /\ pc = "fetched"
    /\ options.command = "report"
    /\ LET built == TemplateReport(TemplateOr(options.template), fetched)
       IN  IF IsError(built)
           THEN /\ pc' = "threw"
                /\ error' = built
                /\ UNCHANGED report
           ELSE /\ pc' = "built"
                /\ report' = built
                /\ UNCHANGED error
    /\ UNCHANGED <<fromData, toData, result, commandVars, requests,
                   promiseAll, fetched>>

\* output || `${project}_${template}_report_${timestamp}`
ReportFilename(option, project, template) ==
    IF NoName(option) THEN <<project, "_", template, "_report_", "now">>
    ELSE option.s

\* const filepath = formatter.saveToFile(report, filename, format)
SaveReport ==
    /\ pc = "built"
    /\ LET saved == saveToFile(disk, report,
                               ReportFilename(options.output, options.project,
                                              TemplateOr(options.template)),
                               FormatOr(options.format, "text"), <<>>)
       IN  IF IsError(saved)
           THEN /\ pc' = "threw"
                /\ error' = saved
                /\ UNCHANGED <<disk, trace>>
           ELSE /\ pc' = "saved"
                /\ disk' = saved.files
                /\ trace' = Append(trace, [op |-> "write",
                                           name |-> saved.filepath])
                /\ UNCHANGED error
    /\ UNCHANGED <<fromData, toData, result, options, ret, apiVars>>

\* return { success: true, message, report, filepath }
ReturnReport ==
    /\ pc = "saved"
    /\ options.command = "report"
    /\ ret' = [success  |-> TRUE,
               message  |-> <<"report saved to: ", trace[Len(trace)].name>>,
               report   |-> report,
               filepath |-> trace[Len(trace)].name]
    /\ pc' = "returned"
    /\ UNCHANGED <<fromData, toData, result, options, disk, error, trace,
                   apiVars>>

\* catch (error) { return { success: false, message } }
CatchReportError ==
    /\ pc = "threw"
    /\ options.command = "report"
    /\ ret' = [success |-> FALSE,
               message |-> <<"generating the report failed: ", error.error>>]
    /\ error' = Undefined
    /\ pc' = "returned"
    /\ UNCHANGED <<fromData, toData, result, options, disk, trace, apiVars>>

\* One of the three commands is called.
InitCommands == InitCompareData \/ InitFetchData \/ InitGenerateReport

NextCommands ==
    \/ NextCompareData
    \/ CallGetFullQualityReport
    \/ CallGetProjectMeasures
    \/ \E e \in Endpoints : Fulfil(e)
    \/ \E e \in Endpoints : Reject(e)
    \/ AwaitPromiseAll
    \/ AwaitProjectMeasures
    \/ SaveFetched
    \/ ReturnFetched
    \/ CatchFetchError
    \/ BuildReport
    \/ SaveReport
    \/ ReturnReport
    \/ CatchReportError

SpecCommands == InitCommands /\ [][NextCommands]_vars

-----------------------------------------------------------------------------
\* A file was written.
Written == \E i \in 1..Len(trace) : trace[i].op = "write"

\* The file is missing or its text is no JSON.
CannotLoad(files, name) ==
    ~FileExists(files, name) \/ JSONparse(ReadFile(files, name)) = SyntaxError

\* Both options name a file.
BothNamed == ~NoName(options.from) /\ ~NoName(options.to)

(* C18: compareData reads the from file, then the to file, then compares,  *)
(* then writes the comparison file, and does nothing else with files; it   *)
(* loads nothing and writes nothing when from or to is not given, writes   *)
(* nothing when a file is missing or no JSON, every error thrown is one    *)
(* the catch block turns into a return, it returns success: false with a   *)
(* message in each of these cases, and returns success: true only after    *)
(* the file is written.                                                    *)
C18_WriteAfterLoads ==
    /\ \E n \in 0..Len(trace) :
         trace = SubSeq(<<[op |-> "read", name |-> <<"from.json">>],
                          [op |-> "read", name |-> <<"to.json">>],
                          [op |-> "write",
                           name |-> IF Written THEN trace[Len(trace)].name
                                    ELSE <<>>]>>, 1, n)
    /\ pc \in {"loaded", "compared", "done"} => Len(trace) = 2
    /\ Written =>
         /\ pc \in {"saved", "returned"}
         /\ "improvements" \in DOMAIN result.summary
         /\ FileExists(disk, trace[Len(trace)].name)
    /\ ~Written => disk \in DataDirs
    /\ ~BothNamed => trace = <<>>
    /\ (BothNamed /\ (CannotLoad(disk, options.from.s)
                        \/ CannotLoad(disk, options.to.s))) =>
         /\ ~Written
         /\ CannotLoad(disk, options.from.s) => trace = <<>>
    /\ pc = "threw" =>
         /\ options.command = "compare"
         /\ "error" \in DOMAIN error
         /\ ret = Undefined
    /\ pc = "returned" =>
         /\ error = Undefined
         /\ ret.success <=> Written
         /\ ret.success => FileExists(disk, ret.filepath)
         /\ ~ret.success => DOMAIN ret = {"success", "message"}
         /\ (~BothNamed \/ CannotLoad(disk, options.from.s)
               \/ CannotLoad(disk, options.to.s)) => ~ret.success

\* Both files were loaded and compared, the comparison was written and
\* success returned.
C18_Witness ==
    /\ pc = "returned"
    /\ ret.success
    /\ Len(trace) = 3
    /\ fromData = FromSnapshot /\ toData = ToSnapshot
    /\ ret.comparison.qualityGateChange.improved
    /\ JSONparse(ReadFile(disk, ret.filepath)) # SyntaxError

\* The format the command writes with: its option, or the default of the
\* command.
FormatOfCommand ==
    FormatOr(options.format,
             IF options.command = "report" THEN "text" ELSE defaultFormat)

\* The command has what it is to write: compareData the comparison with its
\* summary, generateReport the report of its template.
ReadyToWrite ==
    \/ /\ options.command = "compare"
       /\ "summary" \in DOMAIN result
       /\ "improvements" \in DOMAIN result.summary
    \/ options.command = "report" /\ report # Undefined

(* C19: when compareData or generateReport is called with the format text  *)
(* (for generateReport also with no format) and has computed what it is to *)
(* write, it returns success: true and the .txt file it names exists.      *)
C19_TextFormatWritten ==
    (/\ pc = "returned"
     /\ options.command \in {"compare", "report"}
     /\ FormatOfCommand = "text"
     /\ ReadyToWrite) =>
        /\ ret.success
        /\ FileExists(disk, ret.filepath)
        /\ ret.filepath[Len(ret.filepath)] = ".txt"

\* generateReport was called with no format, fetched the data and built the
\* report, and returned that the report data is invalid, with no file
\* written.
C19_Witness ==
    /\ pc = "returned"
    /\ options.command = "report"
    /\ options.format = Undefined
    /\ report # Undefined
    /\ ret = [success |-> FALSE,
              message |-> <<"generating the report failed: ",
                            "invalid report data">>]
    /\ disk = {}

\* The requests of the state a predicate holds of.
RequestsThat(P(_)) == {e \in Endpoints : P(requests[e])}

IsFulfilled(request) == request.state = "fulfilled"

IsRejected(request) == request.state = "rejected"

(* C20: once getFullQualityReport is called all five requests are made;    *)
(* Promise.all is fulfilled exactly when all five are fulfilled and        *)
(* rejected exactly when one is rejected; the report returned holds under  *)
(* each field the value its own request returned, and the timestamp; when  *)
(* a request is rejected there is no report, no file is written, and the   *)
(* command returns success: false with the message of the failure.         *)
C20_AllOrNothingByPosition ==
    promiseAll # Undefined =>
      /\ RequestsThat(LAMBDA r : r = NotAsked) = {}
      /\ promiseAll.remaining
           = Cardinality(Endpoints \ RequestsThat(IsFulfilled))
      /\ promiseAll.state = "fulfilled" <=> RequestsThat(IsFulfilled) = Endpoints
      /\ promiseAll.state = "rejected" <=> RequestsThat(IsRejected) # {}
      /\ pc = "awaitAll" => fetched = Undefined /\ disk = {}
      /\ fetched # Undefined =>
           /\ RequestsThat(IsFulfilled) = Endpoints
           /\ \A e \in Endpoints : Get(fetched, e) = requests[e].value
           /\ ObjKeys(fetched.props) = Append(endpoints, "timestamp")
      /\ RequestsThat(IsRejected) # {} =>
           /\ fetched = Undefined
           /\ report = Undefined
           /\ disk = {}
           /\ ~Written
           /\ pc = "threw" => error.error[1] = "full report failed"
           /\ pc = "returned" =>
                /\ DOMAIN ret = {"success", "message"}
                /\ ~ret.success
                /\ ret.message[2][1] = "full report failed"
                /\ \E e \in RequestsThat(IsRejected) :
                     ret.message[2][3] = requests[e].reason.error

\* The last request of the array was the first to be answered, all five
\* were fulfilled, and generateReport wrote the report of the project.
C20_Witness ==
    /\ pc = "returned"
    /\ options.command = "report"
    /\ ret.success
    /\ promiseAll.first = Str("coverageDetails")
    /\ Get(Get(fetched, "projectInfo"), "name") = Str("pharmacy-pos")
    /\ Get(fetched, "measures") # Get(fetched, "issues")
    /\ FileExists(disk, ret.filepath)

=============================================================================
